---- MODULE Spec2Model ----
(***************************************************************************)
(* Electronics Lab Inventory Management System (LIMS).                     *)
(*                                                                         *)
(* The model covers the inventory ledger (server routes over the Mongoose  *)
(* Component model, and the browser-side ComponentsManager over            *)
(* localStorage), the notification store with its alert scans, and the    *)
(* pure helpers they use.  Time is counted in ticks of 12 hours, so that   *)
(* a day is two ticks and "within 24 hours" has an inside, an edge and an  *)
(* outside.                                                                *)
(***************************************************************************)
EXTENDS Integers, Naturals, Sequences, FiniteSets, TLC

\* ------------------------------------------------------------------ bounds
MaxQty == 4             \* cap on a stored quantity
MaxReq == 2             \* largest quantity a request carries
MaxMoves == 2           \* cap on a component's movement history
MaxClientMoves == 1     \* cap on a browser component's movement history
MaxNotifs == 2          \* cap on the Notification collection
MaxThr == 2             \* largest criticalLowThreshold
MaxBulk == 2            \* largest bulk-update batch
MaxDebt == 2            \* how far below zero a browser quantity is followed
MaxTime == 3            \* last tick of the clock
MaxClientNotifs == 3    \* cap on the browser notification list
MaxProbe == 5           \* largest quantity / threshold given to the stock status
MaxStored == 3          \* cap on the Notification collection under the scans

\* ------------------------------------------------------- program constants
DayTicks == 2                       \* 24 * 60 * 60 * 1000 ms, in ticks
DefaultExpiryTicks == 30 * DayTicks \* 30 * 24 * 60 * 60 * 1000 ms, in ticks
LowStockWindowTicks == DayTicks     \* Date.now() - 24 * 60 * 60 * 1000

CompIds == {1, 2}       \* ids of server components
ClientIds == {1}        \* ids of browser components
UserIds == {1, 2}
Roles == {"admin", "user", "researcher", "engineer"}
Priorities == {"low", "medium", "high"}
Categories == {"low_stock", "old_stock", "stock_movement", "user_activity", "system"}

VARIABLES
    components,           \* Component collection in MongoDB
    notifications,        \* Notification collection in MongoDB, in insertion order
    now,                  \* Date.now(), in ticks
    response,             \* what the last handler answered
    initialQuantity,      \* history: quantity each server component was created with
    clientComponents,     \* ComponentsManager.components (localStorage inventoryComponents)
    clientNotifications,  \* NotificationManager.notifications
    reqs,                 \* in-flight outward requests (handler position and loaded document)
    probe                 \* inputs and results of the pure functions under check

vars == <<components, notifications, now, response, initialQuantity,
          clientComponents, clientNotifications, reqs, probe>>

\* --------------------------------------------------------------- helpers
Max(a, b) == IF a >= b THEN a ELSE b

Abs(x) == IF x < 0 THEN -x ELSE x

RECURSIVE SumOf(_, _)
\* sum of the quantities of the movements of one type
SumOf(ms, type) ==
    IF ms = <<>> THEN 0
    ELSE (IF Head(ms).type = type THEN Head(ms).quantity ELSE 0) + SumOf(Tail(ms), type)

\* ---------------------------------------------------- models/Component.js
\* addMovement with the inward branch lost: the movement is recorded, the
\* quantity is not raised
addMovement_noInward(comp, movementData) ==
    [comp EXCEPT
        !.movements = Append(@, movementData),
        !.quantity = IF movementData.type = "outward"
                     THEN Max(0, @ - movementData.quantity)
                     ELSE @]

\* componentSchema.methods.addMovement: push the movement, then adjust quantity
addMovement(comp, movementData) ==
    [comp EXCEPT
        !.movements = Append(@, movementData),
        !.quantity = IF movementData.type = "inward" THEN @ + movementData.quantity
                     ELSE IF movementData.type = "outward"
                          THEN Max(0, @ - movementData.quantity)
                          ELSE @]

\* movementSchema: quantity min 1 (checked by save())
MovementValid(m) == m.quantity >= 1

\* the virtual with a strict comparison against the threshold
stockStatus_strictLow(quantity, criticalLowThreshold) ==
    IF quantity <= 0 THEN "out_of_stock"
    ELSE IF quantity < criticalLowThreshold THEN "low_stock"
    ELSE "in_stock"

\* componentSchema.virtual('stockStatus')
stockStatus(quantity, criticalLowThreshold) ==
    IF quantity <= 0 THEN "out_of_stock"
    ELSE IF quantity <= criticalLowThreshold THEN "low_stock"
    ELSE "in_stock"

\* ------------------------------------------------- models/Notification.js
\* schema defaults applied by new Notification(...)
\* ObjectId.prototype.toString(): the hex string of an id, one string per id
IdToString(id) == <<"ObjectId", id>>

NewNotification(type, category, priority, comp, targetUsers, targetRoles, expiresAt) ==
    [type |-> type, category |-> category, priority |-> priority,
     relatedComponent |-> comp, metadata |-> [componentId |-> IdToString(comp)],
     targetUsers |-> targetUsers, targetRoles |-> targetRoles,
     readBy |-> <<>>, isActive |-> TRUE, createdAt |-> now, expiresAt |-> expiresAt]

createStockMovementNotification(c, movement) ==
    NewNotification(IF movement.type = "inward" THEN "success" ELSE "info",
                    "stock_movement", "low", c, {}, {"admin"}, now + DefaultExpiryTicks)

\* createLowStockNotification that gives every alert the priority medium
createLowStockNotification_medium(c, comp) ==
    NewNotification("warning", "low_stock", "medium",
                    c, {}, {"admin", "user"}, now + DefaultExpiryTicks)

createLowStockNotification(c, comp) ==
    NewNotification("warning", "low_stock",
                    IF comp.quantity = 0 THEN "high" ELSE "medium",
                    c, {}, {"admin", "user"}, now + DefaultExpiryTicks)

createOldStockNotification(c) ==
    NewNotification("info", "old_stock", "low", c, {}, {"admin"}, now + DefaultExpiryTicks)

\* methods.isReadBy: readBy.some(r => r.user.toString() === userId.toString())
isReadBy(notification, userId) ==
    \E i \in 1..Len(notification.readBy) :
        IdToString(notification.readBy[i].user) = IdToString(userId)

\* methods.markAsRead that pushes without looking for an existing entry
markAsRead_alwaysPush(notification, userId) ==
    [notification EXCEPT !.readBy = Append(@, [user |-> userId, readAt |-> now])]

\* methods.markAsRead: push { user, readAt } unless the user has an entry
markAsRead(notification, userId) ==
    LET existingRead == \E i \in 1..Len(notification.readBy) :
                            IdToString(notification.readBy[i].user) = IdToString(userId)
    IN  IF ~existingRead
        THEN [notification EXCEPT !.readBy = Append(@, [user |-> userId, readAt |-> now])]
        ELSE notification


\* --------------------------------------------------------------- responses
Resp(op, status) == [op |-> op, status |-> status]

NoComp == 0     \* a well-formed id that names no stored component

\* Component.findOne({ _id: componentId, isActive: true })
FindActive(comps, c) == c \in CompIds /\ comps[c].isActive

ServerFrame == UNCHANGED <<now, clientComponents, clientNotifications, reqs, probe>>

\* ----------------------------------------------------- routes/movements.js
\* POST /api/movements/inward
Inward(c, quantity) ==
    /\ ServerFrame
    /\ UNCHANGED initialQuantity
    /\ IF quantity < 1
       THEN /\ response' = Resp("inward", "validation")
            /\ UNCHANGED <<components, notifications>>
       ELSE IF ~FindActive(components, c)
       THEN /\ response' = Resp("inward", "not_found")
            /\ UNCHANGED <<components, notifications>>
       ELSE LET movement == [type |-> "inward", quantity |-> quantity, createdAt |-> now]
                saved == addMovement(components[c], movement)
            IN  /\ saved.quantity <= MaxQty
                /\ Len(saved.movements) <= MaxMoves
                /\ Len(notifications) < MaxNotifs
                /\ components' = [components EXCEPT ![c] = saved]
                /\ notifications' = Append(notifications,
                                           createStockMovementNotification(c, movement))
                /\ response' = Resp("inward", "ok")

\* the notifications POST /outward stores after the save
OutwardNotifications(c, saved, movement) ==
    <<createStockMovementNotification(c, movement)>> \o
    (IF saved.quantity <= saved.criticalLowThreshold
     THEN <<createLowStockNotification(c, saved)>> ELSE <<>>)

\* POST /outward without the sufficient-quantity check
Outward_noStockCheck(c, quantity) ==
    /\ ServerFrame
    /\ UNCHANGED initialQuantity
    /\ IF quantity < 1
       THEN /\ response' = Resp("outward", "validation")
            /\ UNCHANGED <<components, notifications>>
       ELSE IF ~FindActive(components, c)
       THEN /\ response' = Resp("outward", "not_found")
            /\ UNCHANGED <<components, notifications>>
       ELSE LET movement == [type |-> "outward", quantity |-> quantity, createdAt |-> now]
                saved == addMovement(components[c], movement)
                created == OutwardNotifications(c, saved, movement)
            IN  /\ Len(saved.movements) <= MaxMoves
                /\ Len(notifications) + Len(created) <= MaxNotifs
                /\ components' = [components EXCEPT ![c] = saved]
                /\ notifications' = notifications \o created
                /\ response' = Resp("outward", "ok")

\* POST /api/movements/outward
Outward(c, quantity) ==
    /\ ServerFrame
    /\ UNCHANGED initialQuantity
    /\ IF quantity < 1
       THEN /\ response' = Resp("outward", "validation")
            /\ UNCHANGED <<components, notifications>>
       ELSE IF ~FindActive(components, c)
       THEN /\ response' = Resp("outward", "not_found")
            /\ UNCHANGED <<components, notifications>>
       ELSE IF components[c].quantity < quantity
       THEN /\ response' = Resp("outward", "insufficient")
            /\ UNCHANGED <<components, notifications>>
       ELSE LET movement == [type |-> "outward", quantity |-> quantity, createdAt |-> now]
                saved == addMovement(components[c], movement)
                created == OutwardNotifications(c, saved, movement)
            IN  /\ Len(saved.movements) <= MaxMoves
                /\ Len(notifications) + Len(created) <= MaxNotifs
                /\ components' = [components EXCEPT ![c] = saved]
                /\ notifications' = notifications \o created
                /\ response' = Resp("outward", "ok")

\* one item of the bulk loop when the save does not validate the movement
BulkItem_unvalidated(comps, update) ==
    IF ~FindActive(comps, update.componentId)
    THEN [comps |-> comps, outcome |-> "not_found"]
    ELSE IF update.quantity < 0 /\ Abs(update.quantity) > comps[update.componentId].quantity
    THEN [comps |-> comps, outcome |-> "insufficient"]
    ELSE LET movement == [type |-> IF update.quantity > 0 THEN "inward" ELSE "outward",
                          quantity |-> Abs(update.quantity), createdAt |-> now]
             saved == addMovement(comps[update.componentId], movement)
         IN  [comps |-> [comps EXCEPT ![update.componentId] = saved], outcome |-> "ok"]

\* one item of POST /api/movements/bulk-update: the new collection and the
\* item's outcome ("ok" or the error pushed to errors_occurred)
BulkItem(comps, update) ==
    IF ~FindActive(comps, update.componentId)
    THEN [comps |-> comps, outcome |-> "not_found"]
    ELSE IF update.quantity < 0 /\ Abs(update.quantity) > comps[update.componentId].quantity
    THEN [comps |-> comps, outcome |-> "insufficient"]
    ELSE LET movement == [type |-> IF update.quantity > 0 THEN "inward" ELSE "outward",
                          quantity |-> Abs(update.quantity), createdAt |-> now]
             saved == addMovement(comps[update.componentId], movement)
         IN  IF MovementValid(movement)
             THEN [comps |-> [comps EXCEPT ![update.componentId] = saved], outcome |-> "ok"]
             ELSE [comps |-> comps, outcome |-> "save_failed"]

RECURSIVE BulkLoop(_, _, _, _, _)
\* for (const update of updates) { ... } with results and errors_occurred
BulkLoop(updates, i, comps, results, errors) ==
    IF i > Len(updates)
    THEN [comps |-> comps, successful |-> results, failed |-> errors]
    ELSE LET r == BulkItem(comps, updates[i])
         IN  IF r.outcome = "ok"
             THEN BulkLoop(updates, i + 1, r.comps, Append(results, i), errors)
             ELSE BulkLoop(updates, i + 1, r.comps, results,
                           Append(errors, [item |-> i, error |-> r.outcome]))

\* quantities a bulk item carries: a removal, the zero the validator lets
\* through, and an addition
BulkQuantities == {-MaxReq, 0, 1}

BulkUpdates ==
    UNION {[1..n -> [componentId : CompIds, quantity : BulkQuantities]]
           : n \in 0..MaxBulk}

\* POST /api/movements/bulk-update
BulkUpdate(updates) ==
    /\ ServerFrame
    /\ UNCHANGED <<initialQuantity, notifications>>
    /\ IF Len(updates) < 1
       THEN /\ response' = Resp("bulk", "validation")
            /\ UNCHANGED components
       ELSE LET r == BulkLoop(updates, 1, components, <<>>, <<>>)
            IN  /\ \A c \in CompIds : /\ r.comps[c].quantity <= MaxQty
                                      /\ Len(r.comps[c].movements) <= MaxMoves
                /\ components' = r.comps
                /\ response' = Resp("bulk", "ok")

\* ---------------------------------------------------- routes/components.js
\* req.body of the update: any of the validated fields quantity and
\* criticalLowThreshold and, unvalidated, a movements array (empty, or one
\* movement that passes the schema)
Patches ==
    [fields : SUBSET {"quantity", "criticalLowThreshold", "movements"},
     quantity : -1..MaxQty, criticalLowThreshold : 0..MaxThr,
     movements : {<<>>, <<[type |-> "inward", quantity |-> 1, createdAt |-> 0]>>}]

\* PUT /api/components/:id
UpdateComponent(c, patch) ==
    /\ ServerFrame
    /\ UNCHANGED <<initialQuantity, notifications>>
    /\ IF "quantity" \in patch.fields /\ patch.quantity < 0
       THEN /\ response' = Resp("update", "validation")
            /\ UNCHANGED components
       ELSE IF ~FindActive(components, c)
       THEN /\ response' = Resp("update", "not_found")
            /\ UNCHANGED components
       ELSE /\ components' = [components EXCEPT ![c] =
                [@ EXCEPT
                   !.quantity = IF "quantity" \in patch.fields
                                THEN patch.quantity ELSE @,
                   !.criticalLowThreshold = IF "criticalLowThreshold" \in patch.fields
                                            THEN patch.criticalLowThreshold ELSE @,
                   !.movements = IF "movements" \in patch.fields
                                 THEN patch.movements ELSE @]]
            /\ response' = Resp("update", "ok")

\* DELETE /api/components/:id (soft delete)
DeleteComponent(c) ==
    /\ ServerFrame
    /\ UNCHANGED <<initialQuantity, notifications>>
    /\ IF ~FindActive(components, c)
       THEN /\ response' = Resp("delete", "not_found")
            /\ UNCHANGED components
       ELSE /\ components' = [components EXCEPT ![c].isActive = FALSE]
            /\ response' = Resp("delete", "ok")


\* ------------------------------------------ js/components.js (browser side)
ClientFrame == UNCHANGED <<components, notifications, now, initialQuantity,
                           clientNotifications, reqs, probe>>

\* this.components.findIndex(c => c.id === componentId) !== -1
ClientFound(c) == c \in ClientIds /\ clientComponents[c].present

\* ComponentsManager.getStockStatus, by the text it returns
getStockStatus(component) ==
    IF component.quantity <= 0 THEN "Out of Stock"
    ELSE IF component.quantity <= component.criticalLowThreshold THEN "Low Stock"
    ELSE "In Stock"

\* ComponentsManager.handleStockMovementSubmit; quantity is parseInt of the
\* form field (NaN takes the same branch as 0)
handleStockMovementSubmit(componentId, movementType, quantity) ==
    /\ ClientFrame
    /\ IF componentId = NoComp \/ quantity = 0
       THEN /\ response' = Resp("clientMovement", "required")
            /\ UNCHANGED clientComponents
       ELSE IF ~ClientFound(componentId)
       THEN /\ response' = Resp("clientMovement", "not_found")
            /\ UNCHANGED clientComponents
       ELSE IF movementType = "outward" /\ quantity > clientComponents[componentId].quantity
       THEN /\ response' = Resp("clientMovement", "insufficient")
            /\ UNCHANGED clientComponents
       ELSE LET movement == [type |-> movementType, quantity |-> quantity, date |-> now]
                comp == clientComponents[componentId]
                updated == [comp EXCEPT
                              !.quantity = IF movementType = "inward"
                                           THEN @ + quantity ELSE @ - quantity,
                              !.movements = Append(@, movement)]
            IN  /\ updated.quantity \in -MaxDebt..MaxQty
                /\ Len(updated.movements) <= MaxClientMoves
                /\ clientComponents' = [clientComponents EXCEPT ![componentId] = updated]
                /\ response' = Resp("clientMovement", "ok")

ClientFormData == [quantity : -1..MaxQty, criticalLowThreshold : 0..MaxThr]

\* ComponentsManager.handleComponentFormSubmit; componentId = NoComp is the
\* empty hidden field of the Add Component form
handleComponentFormSubmit(componentId, componentData) ==
    /\ ClientFrame
    /\ IF componentId # NoComp
       THEN /\ clientComponents' =
                  IF ClientFound(componentId)
                  THEN [clientComponents EXCEPT ![componentId] =
                           [@ EXCEPT !.quantity = componentData.quantity,
                                     !.criticalLowThreshold =
                                         componentData.criticalLowThreshold]]
                  ELSE clientComponents
            /\ response' = Resp("clientForm",
                                IF ClientFound(componentId) THEN "updated" ELSE "saved")
       ELSE /\ \E id \in ClientIds :
                  /\ ~clientComponents[id].present
                  /\ clientComponents' = [clientComponents EXCEPT ![id] =
                         [present |-> TRUE, quantity |-> componentData.quantity,
                          criticalLowThreshold |-> componentData.criticalLowThreshold,
                          movements |-> <<>>, addedDate |-> now]]
            /\ response' = Resp("clientForm", "added")

\* ComponentsManager.deleteComponent (after the confirm dialog): splice
deleteComponent(componentId) ==
    /\ ClientFrame
    /\ ClientFound(componentId)
    /\ clientComponents' = [clientComponents EXCEPT ![componentId] =
           [present |-> FALSE, quantity |-> 0, criticalLowThreshold |-> 0,
            movements |-> <<>>, addedDate |-> 0]]
    /\ response' = Resp("clientDelete", "ok")

\* ------------------------------------------------------------ ledger model
NoProbe == [kind |-> "none"]

ClientSeed ==
    [id \in ClientIds |-> [present |-> TRUE, quantity |-> 1, criticalLowThreshold |-> 1,
                           movements |-> <<>>, addedDate |-> 0]]

ClientEmpty ==
    [id \in ClientIds |-> [present |-> FALSE, quantity |-> 0, criticalLowThreshold |-> 0,
                           movements |-> <<>>, addedDate |-> 0]]

Deactivated ==
    [quantity |-> 1, criticalLowThreshold |-> 1, movements |-> <<>>, isActive |-> FALSE,
     createdAt |-> 0]

\* The server inventory after seeding: component 1 has the quantity it was
\* created with and an empty movement history; component 2 has been
\* deactivated.
ServerSeeds ==
    {[c \in CompIds |-> IF c = 1
                        THEN [quantity |-> q, criticalLowThreshold |-> 1,
                              movements |-> <<>>, isActive |-> TRUE, createdAt |-> 0]
                        ELSE Deactivated] : q \in 0..MaxReq}

\* The browser pages keep their inventory in localStorage and the server
\* keeps its own in MongoDB; the two never read each other.  A behaviour
\* follows one of them: either the server inventory is seeded and the
\* browser's inventoryComponents is empty, or the browser holds the
\* inventory and every server component has been deactivated.
InitStores ==
    \/ /\ components \in ServerSeeds
       /\ clientComponents = ClientEmpty
    \/ /\ components = [c \in CompIds |-> Deactivated]
       /\ clientComponents = ClientSeed

Init ==
    /\ InitStores
    /\ initialQuantity = [c \in CompIds |-> components[c].quantity]
    /\ notifications = <<>>
    /\ now = 0
    /\ response = Resp("none", "none")
    /\ clientNotifications = <<>>
    /\ reqs = <<>>
    /\ probe = NoProbe

DoInward == \E c \in CompIds \cup {NoComp}, q \in -MaxReq..MaxReq : Inward(c, q)

DoOutward == \E c \in CompIds \cup {NoComp}, q \in -MaxReq..MaxReq : Outward(c, q)

DoBulkUpdate == \E updates \in BulkUpdates : BulkUpdate(updates)

DoUpdateComponent == \E c \in CompIds \cup {NoComp}, patch \in Patches : UpdateComponent(c, patch)

DoDeleteComponent == \E c \in CompIds \cup {NoComp} : DeleteComponent(c)

DoClientMovement ==
    \E c \in ClientIds \cup {NoComp}, t \in {"inward", "outward"}, q \in -MaxReq..MaxReq :
        handleStockMovementSubmit(c, t, q)

DoClientForm ==
    \E c \in ClientIds \cup {NoComp}, d \in ClientFormData : handleComponentFormSubmit(c, d)

DoClientDelete == \E c \in ClientIds : deleteComponent(c)

\* Movements only, one request at a time, on the server and in the browser.
Next ==
    \/ DoInward
    \/ DoOutward
    \/ DoBulkUpdate
    \/ DoClientMovement

Spec == Init /\ [][Next]_vars


\* Direct edits of component records.
NextEdit ==
    \/ DoUpdateComponent
    \/ DoDeleteComponent
    \/ DoClientForm
    \/ DoClientDelete

SpecEdit == Init /\ [][NextEdit]_vars

\* ------------------------------------- concurrent requests (routes/movements.js)
\* Express runs each handler up to its next await; the handlers of two
\* requests interleave at those points.  A request holds the document it
\* loaded: the save writes back what that document holds.
ReqIds == {1, 2}

ConcFrame == UNCHANGED <<now, response, initialQuantity, clientComponents,
                         clientNotifications, probe>>

Finish(r, status) == [reqs EXCEPT ![r].pc = "done", ![r].status = status]

\* POST /inward and POST /outward up to component.save(): findOne, the
\* stock check, addMovement on the loaded document
MovementFind(r) ==
    LET req == reqs[r]
    IN  /\ req.pc = "start"
        /\ ConcFrame
        /\ UNCHANGED <<components, notifications>>
        /\ IF ~FindActive(components, req.componentId)
           THEN reqs' = Finish(r, "not_found")
           ELSE IF req.type = "outward" /\ components[req.componentId].quantity < req.quantity
           THEN reqs' = Finish(r, "insufficient")
           ELSE reqs' = [reqs EXCEPT
                           ![r].pc = "saving",
                           ![r].doc = addMovement(components[req.componentId],
                                                  [type |-> req.type,
                                                   quantity |-> req.quantity,
                                                   createdAt |-> now])]

\* await component.save(): Mongoose sends the changes of the loaded
\* document, { $push: { movements }, $set: { quantity } }, with no version
\* condition for a push
MovementSave(r) ==
    LET req == reqs[r]
    IN  /\ req.pc = "saving"
        /\ ConcFrame
        /\ UNCHANGED notifications
        /\ components' = [components EXCEPT ![req.componentId] =
               [@ EXCEPT !.movements = Append(@, [type |-> req.type,
                                                  quantity |-> req.quantity,
                                                  createdAt |-> now]),
                         !.quantity = req.doc.quantity]]
        /\ reqs' = [reqs EXCEPT ![r].pc = "notifying"]

\* await notification.save() for the stock movement notification
MovementNotify(r) ==
    LET req == reqs[r]
    IN  /\ req.pc = "notifying"
        /\ ConcFrame
        /\ UNCHANGED components
        /\ notifications' = Append(notifications,
               createStockMovementNotification(req.componentId,
                   [type |-> req.type, quantity |-> req.quantity, createdAt |-> now]))
        /\ reqs' = IF req.type = "inward" THEN Finish(r, "ok")
                   ELSE [reqs EXCEPT ![r].pc = "alerting"]

\* POST /outward: the low-stock check on the loaded document, then res.json
OutwardAlert(r) ==
    LET req == reqs[r]
    IN  /\ req.pc = "alerting"
        /\ ConcFrame
        /\ UNCHANGED components
        /\ notifications' =
               IF req.doc.quantity <= req.doc.criticalLowThreshold
               THEN Append(notifications, createLowStockNotification(req.componentId, req.doc))
               ELSE notifications
        /\ reqs' = Finish(r, "ok")

NoDoc == [quantity |-> 0, criticalLowThreshold |-> 0, movements |-> <<>>, isActive |-> FALSE,
          createdAt |-> 0]

\* two validated requests have arrived for component 1
InitConc ==
    /\ components \in ServerSeeds
    /\ clientComponents = ClientEmpty
    /\ initialQuantity = [c \in CompIds |-> components[c].quantity]
    /\ notifications = <<>>
    /\ now = 0
    /\ response = Resp("none", "none")
    /\ clientNotifications = <<>>
    /\ probe = NoProbe
    /\ reqs \in [ReqIds -> [pc : {"start"}, status : {"pending"}, type : {"inward", "outward"},
                            componentId : {1}, quantity : 1..MaxReq, doc : {NoDoc}]]

DoMovementFind == \E r \in ReqIds : MovementFind(r)

DoMovementSave == \E r \in ReqIds : MovementSave(r)

DoMovementNotify == \E r \in ReqIds : MovementNotify(r)

DoOutwardAlert == \E r \in ReqIds : OutwardAlert(r)

NextConc ==
    \/ DoMovementFind
    \/ DoMovementSave
    \/ DoMovementNotify
    \/ DoOutwardAlert

SpecConc == InitConc /\ [][NextConc]_vars

\* await notification.save() rejects (the store refuses the write): the
\* rejection reaches the handler's catch, which answers 500
MovementNotifyRejected(r) ==
    LET req == reqs[r]
    IN  /\ req.pc \in {"notifying", "alerting"}
        /\ ConcFrame
        /\ UNCHANGED <<components, notifications>>
        /\ reqs' = Finish(r, "error")

\* The two requests run while the store may refuse a notification and an
\* administrator may delete component 1.
SpecFault ==
    InitConc /\ [][\/ NextConc
                   \/ \E r \in ReqIds : MovementNotifyRejected(r)
                   \/ DeleteComponent(1)]_vars

\* --------------------------------------------------------- models/User.js
\* the accounts: an admin, a user, a researcher, an engineer, and a researcher
\* who has been given an explicit permissions list
AccountIds == 1..5

UserRole(u) ==
    CASE u = 1 -> "admin"
      [] u = 2 -> "user"
      [] u = 3 -> "researcher"
      [] u = 4 -> "engineer"
      [] OTHER -> "researcher"

\* the permissions field of the account (default [])
UserPermissions(u) == IF u = 5 THEN {"outward"} ELSE {}

Capabilities == {"all", "view", "edit", "inward", "outward", "search", "reports"}

\* the rolePermissions table of getPermissions, with a table that misses edit for user
rolePermissions_userNoEdit(role) ==
    CASE role = "admin" -> {"all"}
      [] role = "user" -> {"view", "inward", "outward"}
      [] role = "researcher" -> {"view", "search"}
      [] role = "engineer" -> {"view", "outward", "reports"}
      [] OTHER -> {"view"}

\* rolePermissions[this.role] || ['view']
rolePermissions(role) ==
    CASE role = "admin" -> {"all"}
      [] role = "user" -> {"view", "edit", "inward", "outward"}
      [] role = "researcher" -> {"view", "search"}
      [] role = "engineer" -> {"view", "outward", "reports"}
      [] OTHER -> {"view"}

\* methods.getPermissions on a user document with this role and permissions
resolvePermissions(role, permissions) ==
    IF Cardinality(permissions) > 0 THEN permissions ELSE rolePermissions(role)

\* methods.hasPermission
hasPermission(role, permissions, permission) ==
    LET userPermissions == resolvePermissions(role, permissions)
    IN  "all" \in userPermissions \/ permission \in userPermissions

\* req.user.getPermissions()
getPermissions(u) == resolvePermissions(UserRole(u), UserPermissions(u))

\* authorize that lets every authenticated user through
authorize_everyone(u, permissions) == TRUE

\* middleware/auth.js authorize(...permissions)
authorize(u, permissions) ==
    "all" \in getPermissions(u) \/ permissions \cap getPermissions(u) # {}

\* ------------------------------------------------- routes/notifications.js
OldStockTicks == 90 * DayTicks          \* Date.now() - 90 * 24 * 60 * 60 * 1000
OldStockWindowTicks == 7 * DayTicks     \* Date.now() - 7 * 24 * 60 * 60 * 1000

NotifFrame == UNCHANGED <<components, now, initialQuantity, clientComponents,
                          clientNotifications, reqs, probe>>

NotifIds == 1..Len(notifications)

NoNotif == 0    \* a well-formed id that names no stored notification

\* $or: [{ targetUsers: req.user._id }, { targetRoles: req.user.role }]
Targeted(n, u) == u \in n.targetUsers \/ UserRole(u) \in n.targetRoles

\* 'readBy.user': { $ne: req.user._id }
NotReadBy(n, u) == \A i \in 1..Len(n.readBy) : n.readBy[i].user # u

\* the filter of GET / without its expiry condition
ListFilter_noExpiry(n, u, q) ==
    /\ n.isActive
    /\ Targeted(n, u)
    /\ q.priority \in Priorities => n.priority = q.priority
    /\ q.unreadOnly = "true" => NotReadBy(n, u)

\* the filter GET / builds from the user and the query
ListFilter(n, u, q) ==
    /\ n.isActive
    /\ n.expiresAt > now
    /\ Targeted(n, u)
    /\ q.priority \in Priorities => n.priority = q.priority
    /\ q.unreadOnly = "true" => NotReadBy(n, u)

\* the unread filter without its $or on targetUsers and targetRoles
UnreadFilter_untargeted(n, u) ==
    /\ n.isActive
    /\ n.expiresAt > now
    /\ NotReadBy(n, u)

\* the filter of GET /unread-count and PUT /mark-all-read
UnreadFilter(n, u) ==
    /\ n.isActive
    /\ n.expiresAt > now
    /\ Targeted(n, u)
    /\ NotReadBy(n, u)

\* the character codes of the stored priority strings
CharCodes(priority) ==
    CASE priority = "high" -> <<104, 105, 103, 104>>
      [] priority = "medium" -> <<109, 101, 100, 105, 117, 109>>
      [] priority = "low" -> <<108, 111, 119>>

\* the order of two strings in a MongoDB sort: by code, a prefix first
RECURSIVE StringLess(_, _)

StringLess(a, b) ==
    IF b = <<>> THEN FALSE
    ELSE IF a = <<>> THEN TRUE
    ELSE IF Head(a) # Head(b) THEN Head(a) < Head(b)
    ELSE StringLess(Tail(a), Tail(b))

\* .sort({ priority: -1, createdAt: -1 }): a must come before b
SortsBefore(a, b) ==
    \/ StringLess(CharCodes(b.priority), CharCodes(a.priority))
    \/ a.priority = b.priority /\ a.createdAt > b.createdAt

Orderings(S) ==
    {s \in [1..Cardinality(S) -> S] : \A i, j \in 1..Cardinality(S) : i # j => s[i] # s[j]}

\* the orders the sort may give the matching documents (equal keys in any order)
SortedOrders(S) ==
    {s \in Orderings(S) :
        \A i, j \in 1..Cardinality(S) :
            i < j => ~SortsBefore(notifications[s[j]], notifications[s[i]])}

Min(a, b) == IF a <= b THEN a ELSE b

\* .limit(limit * 1).skip((page - 1) * limit)
Page(order, page, limit) ==
    SubSeq(order, (page - 1) * limit + 1, Min(page * limit, Len(order)))

DefaultLimit == 20

Queries ==
    [page : {1, 2}, limit : {1, DefaultLimit}, unreadOnly : {"true", "false"},
     priority : {"any", "high"}]

\* GET /api/notifications
GetNotifications(u, q) ==
    /\ NotifFrame
    /\ UNCHANGED notifications
    /\ LET matching == {i \in NotifIds : ListFilter(notifications[i], u, q)}
       IN  \E order \in SortedOrders(matching) :
               response' = [op |-> "list", status |-> "ok", user |-> u,
                            data |-> Page(order, q.page, q.limit),
                            total |-> Cardinality(matching)]

\* statics.getNotificationsForUser
getNotificationsForUser(userId, userRole) ==
    {i \in NotifIds : /\ notifications[i].isActive
                      /\ notifications[i].expiresAt > now
                      /\ \/ userId \in notifications[i].targetUsers
                         \/ userRole \in notifications[i].targetRoles}

\* GET /api/notifications/unread-count
GetUnreadCount(u) ==
    /\ NotifFrame
    /\ UNCHANGED notifications
    /\ response' = [op |-> "unreadCount", status |-> "ok", user |-> u,
                    unreadCount |-> Cardinality({i \in NotifIds :
                                                    UnreadFilter(notifications[i], u)})]

\* PUT /api/notifications/:id/read
MarkRead(id, u) ==
    /\ NotifFrame
    /\ IF ~(id \in NotifIds /\ notifications[id].isActive /\ Targeted(notifications[id], u))
       THEN /\ response' = Resp("markRead", "not_found")
            /\ UNCHANGED notifications
       ELSE /\ notifications' =
                  [notifications EXCEPT ![id] = IF ~isReadBy(@, u) THEN markAsRead(@, u) ELSE @]
            /\ response' = Resp("markRead", "ok")

\* PUT /api/notifications/mark-all-read
MarkAllRead(u) ==
    /\ NotifFrame
    /\ notifications' = [i \in NotifIds |->
                            IF UnreadFilter(notifications[i], u)
                            THEN markAsRead(notifications[i], u)
                            ELSE notifications[i]]
    /\ response' = Resp("markAllRead", "ok")

\* DELETE /api/notifications/:id (soft delete)
DeleteNotification(id, u) ==
    /\ NotifFrame
    /\ IF ~(id \in NotifIds /\ (Targeted(notifications[id], u) \/ UserRole(u) = "admin"))
       THEN /\ response' = Resp("deleteNotification", "not_found")
            /\ UNCHANGED notifications
       ELSE /\ notifications' = [notifications EXCEPT ![id].isActive = FALSE]
            /\ response' = Resp("deleteNotification", "ok")

\* the bodies an admin posts to POST /api/notifications/create: a system notice
\* for user 2 or for the admins, expiring after a tick or at the default
CreateBodies ==
    {[priority |-> "high", targetUsers |-> audience[1], targetRoles |-> audience[2],
      expiresIn |-> e] :
     audience \in {<<{2}, {}>>, <<{}, {"admin"}>>}, e \in {1, DefaultExpiryTicks}}

\* the findOne of the scans with a window of no length: only a notification of
\* this very instant counts
ExistingAlert_noWindow(notifs, category, c, window) ==
    \E i \in 1..Len(notifs) :
        /\ notifs[i].category = category
        /\ notifs[i].metadata.componentId = IdToString(c)
        /\ notifs[i].createdAt >= now
        /\ notifs[i].isActive

\* Notification.findOne({ category, 'metadata.componentId', createdAt: { $gte }, isActive })
ExistingAlert(notifs, category, c, window) ==
    \E i \in 1..Len(notifs) :
        /\ notifs[i].category = category
        /\ notifs[i].metadata.componentId = IdToString(c)
        /\ notifs[i].createdAt >= now - window
        /\ notifs[i].isActive

\* the low-stock loop of POST /check-alerts, over the components in id order
RECURSIVE LowStockScan(_, _, _)

LowStockScan(c, notifs, alerts) ==
    IF c > Cardinality(CompIds) THEN [notifs |-> notifs, alerts |-> alerts]
    ELSE LET comp == components[c]
         IN  IF /\ comp.isActive
                /\ comp.quantity <= comp.criticalLowThreshold
                /\ ~ExistingAlert(notifs, "low_stock", c, LowStockWindowTicks)
             THEN LowStockScan(c + 1, Append(notifs, createLowStockNotification(c, comp)),
                               Append(alerts, c))
             ELSE LowStockScan(c + 1, notifs, alerts)

\* the old-stock loop of POST /check-alerts
RECURSIVE OldStockScan_anyMovements(_, _, _)

\* the old-stock loop that does not look at the movements
OldStockScan_anyMovements(c, notifs, alerts) ==
    IF c > Cardinality(CompIds) THEN [notifs |-> notifs, alerts |-> alerts]
    ELSE LET comp == components[c]
             ninetyDaysAgo == now - OldStockTicks
         IN  IF /\ comp.isActive
                /\ comp.createdAt < ninetyDaysAgo
                /\ ~ExistingAlert(notifs, "old_stock", c, OldStockWindowTicks)
             THEN OldStockScan_anyMovements(c + 1,
                                            Append(notifs, createOldStockNotification(c)),
                                            Append(alerts, c))
             ELSE OldStockScan_anyMovements(c + 1, notifs, alerts)

RECURSIVE OldStockScan(_, _, _)

OldStockScan(c, notifs, alerts) ==
    IF c > Cardinality(CompIds) THEN [notifs |-> notifs, alerts |-> alerts]
    ELSE LET comp == components[c]
             ninetyDaysAgo == now - OldStockTicks
             hasRecentOutwardMovement ==
                 \E i \in 1..Len(comp.movements) :
                     /\ comp.movements[i].type = "outward"
                     /\ comp.movements[i].createdAt > ninetyDaysAgo
         IN  IF /\ comp.isActive
                /\ comp.createdAt < ninetyDaysAgo
                /\ ~hasRecentOutwardMovement
                /\ ~ExistingAlert(notifs, "old_stock", c, OldStockWindowTicks)
             THEN OldStockScan(c + 1, Append(notifs, createOldStockNotification(c)),
                               Append(alerts, c))
             ELSE OldStockScan(c + 1, notifs, alerts)

\* POST /api/notifications/check-alerts
\* a scan that also writes to the components it reports: it deactivates them
CheckAlerts_deactivating(u) ==
    /\ UNCHANGED <<now, initialQuantity, clientComponents, clientNotifications, reqs, probe>>
    /\ IF ~authorize(u, {"all"})
       THEN /\ response' = Resp("checkAlerts", "forbidden")
            /\ UNCHANGED <<notifications, components>>
       ELSE LET low == LowStockScan(1, notifications, <<>>)
                old == OldStockScan(1, low.notifs, <<>>)
            IN  /\ Len(old.notifs) <= MaxStored
                /\ notifications' = old.notifs
                /\ components' =
                       [c \in CompIds |->
                           IF \E i \in 1..Len(low.alerts) : low.alerts[i] = c
                           THEN [components[c] EXCEPT !.isActive = FALSE]
                           ELSE components[c]]
                /\ response' = [op |-> "checkAlerts", status |-> "ok",
                                lowStockAlerts |-> low.alerts,
                                oldStockAlerts |-> old.alerts]

CheckAlerts(u) ==
    /\ NotifFrame
    /\ IF ~authorize(u, {"all"})
       THEN /\ response' = Resp("checkAlerts", "forbidden")
            /\ UNCHANGED notifications
       ELSE LET low == LowStockScan(1, notifications, <<>>)
                old == OldStockScan(1, low.notifs, <<>>)
            IN  /\ Len(old.notifs) <= MaxStored
                /\ notifications' = old.notifs
                /\ response' = [op |-> "checkAlerts", status |-> "ok",
                                lowStockAlerts |-> low.alerts,
                                oldStockAlerts |-> old.alerts]

\* the clock advances by one tick; the last answer belongs to the tick it was given in
Tick ==
    /\ now < MaxTime
    /\ now' = now + 1
    /\ response' = Resp("none", "none")
    /\ UNCHANGED <<components, notifications, initialQuantity, clientComponents,
                   clientNotifications, reqs, probe>>

\* ------------------------------------------- js/notifications.js (browser side)
ClientNotifFrame == UNCHANGED <<components, notifications, now, initialQuantity,
                                clientComponents, reqs, probe>>

CleanupTicks == 30 * DayTicks       \* maxAge = 30 days

\* Utils.calculateAge: Math.ceil(Math.abs(now - itemDate) / (1000 * 60 * 60 * 24))
calculateAge(date) == (Abs(now - date) + DayTicks - 1) \div DayTicks

\* Utils.isOldStock
isOldStock(date, thresholdDays) == calculateAge(date) > thresholdDays

\* NotificationManager.isNotificationOld
isNotificationOld(date, daysThreshold) == calculateAge(date) > daysThreshold

\* NotificationManager.createNotification: the new notification goes to the front
createNotification(list, notificationData) ==
    <<[type |-> notificationData.type, title |-> notificationData.title,
       component |-> notificationData.component, priority |-> notificationData.priority,
       date |-> now, read |-> FALSE]>> \o list

\* NotificationManager.checkLowStockAlerts, over the components in stored order
RECURSIVE checkLowStockAlerts(_, _)

checkLowStockAlerts(c, list) ==
    IF c > Cardinality(ClientIds) THEN list
    ELSE LET component == clientComponents[c]
             existingNotification ==
                 \E i \in 1..Len(list) :
                     /\ list[i].type = "warning"
                     /\ list[i].component = c
                     /\ list[i].title = "Low Stock Alert"
                     /\ ~isNotificationOld(list[i].date, 1)
         IN  IF /\ component.present
                /\ component.quantity <= component.criticalLowThreshold
                /\ ~existingNotification
             THEN checkLowStockAlerts(c + 1, createNotification(list,
                      [type |-> "warning", title |-> "Low Stock Alert", component |-> c,
                       priority |-> IF component.quantity = 0 THEN "high" ELSE "medium"]))
             ELSE checkLowStockAlerts(c + 1, list)

\* NotificationManager.checkOldStockAlerts
RECURSIVE checkOldStockAlerts(_, _)

checkOldStockAlerts(c, list) ==
    IF c > Cardinality(ClientIds) THEN list
    ELSE LET component == clientComponents[c]
             thresholdDays == OldStockTicks \div DayTicks
             hasRecentMovement ==
                 \E i \in 1..Len(component.movements) :
                     /\ component.movements[i].type = "outward"
                     /\ calculateAge(component.movements[i].date) <= thresholdDays
             existingNotification ==
                 \E i \in 1..Len(list) :
                     /\ list[i].type = "info"
                     /\ list[i].component = c
                     /\ list[i].title = "Old Stock Notice"
                     /\ ~isNotificationOld(list[i].date, OldStockWindowTicks \div DayTicks)
         IN  IF /\ component.present
                /\ isOldStock(component.addedDate, thresholdDays)
                /\ ~hasRecentMovement
                /\ ~existingNotification
             THEN checkOldStockAlerts(c + 1, createNotification(list,
                      [type |-> "info", title |-> "Old Stock Notice", component |-> c,
                       priority |-> "low"]))
             ELSE checkOldStockAlerts(c + 1, list)

\* NotificationManager.cleanupOldNotifications
cleanupOldNotifications(list) ==
    LET Keep(n) == n.date > now - CleanupTicks
    IN  SelectSeq(list, Keep)

\* NotificationManager.checkStockAlerts
checkStockAlerts ==
    /\ ClientNotifFrame
    /\ IF \A c \in ClientIds : ~clientComponents[c].present
       THEN /\ UNCHANGED clientNotifications
            /\ response' = Resp("clientScan", "no_components")
       ELSE LET scanned == checkOldStockAlerts(1, checkLowStockAlerts(1, clientNotifications))
            IN  /\ Len(scanned) <= MaxClientNotifs
                /\ clientNotifications' = cleanupOldNotifications(scanned)
                /\ response' = Resp("clientScan", "ok")

\* NotificationManager.markAsRead
clientMarkAsRead(i) ==
    /\ ClientNotifFrame
    /\ IF i \in 1..Len(clientNotifications)
       THEN clientNotifications' = [clientNotifications EXCEPT ![i].read = TRUE]
       ELSE UNCHANGED clientNotifications
    /\ response' = Resp("clientMarkAsRead", "ok")

\* NotificationManager.deleteNotification
clientDeleteNotification(i) ==
    /\ ClientNotifFrame
    /\ IF i \in 1..Len(clientNotifications)
       THEN clientNotifications' = SubSeq(clientNotifications, 1, i - 1) \o
                                   SubSeq(clientNotifications, i + 1, Len(clientNotifications))
       ELSE UNCHANGED clientNotifications
    /\ response' = Resp("clientDeleteNotification", "ok")

\* priorityOrder[priority] || 2
priorityOrder(priority) ==
    CASE priority = "high" -> 3
      [] priority = "medium" -> 2
      [] priority = "low" -> 1
      [] OTHER -> 2

\* the comparator of getNotifications: negative when a sorts before b
compareNotifications(a, b) ==
    LET priorityDiff == priorityOrder(b.priority) - priorityOrder(a.priority)
    IN  IF priorityDiff # 0 THEN priorityDiff ELSE b.date - a.date

\* Array.prototype.sort with the comparator, stable: insert x after its equals
RECURSIVE InsertSorted(_, _)

InsertSorted(sorted, x) ==
    IF sorted = <<>> THEN <<x>>
    ELSE IF compareNotifications(clientNotifications[x], clientNotifications[Head(sorted)]) < 0
    THEN <<x>> \o sorted
    ELSE <<Head(sorted)>> \o InsertSorted(Tail(sorted), x)

RECURSIVE StableSort(_)

StableSort(list) ==
    IF list = <<>> THEN <<>>
    ELSE InsertSorted(StableSort(SubSeq(list, 1, Len(list) - 1)), list[Len(list)])

\* NotificationManager.getNotifications(limit, unreadOnly); limit 0 stands for null
getNotifications(limit, unreadOnly) ==
    LET Wanted(i) == ~unreadOnly \/ ~clientNotifications[i].read
        filtered == SelectSeq([i \in 1..Len(clientNotifications) |-> i], Wanted)
        sorted == StableSort(filtered)
    IN  IF limit # 0 THEN SubSeq(sorted, 1, Min(limit, Len(sorted))) ELSE sorted

\* the notification panel asks for the list
clientGetNotifications(limit, unreadOnly) ==
    /\ ClientNotifFrame
    /\ UNCHANGED clientNotifications
    /\ response' = [op |-> "clientList", status |-> "ok",
                    data |-> getNotifications(limit, unreadOnly)]

\* ------------------------------------------------------- notification model
\* The server inventory the scans look at: component 1 is at or below its
\* threshold and is either new or was created more than 90 days ago;
\* component 2 is at its threshold, or has been deactivated.
AlertSeeds ==
    {[c \in CompIds |->
         IF c = 1
         THEN [quantity |-> q, criticalLowThreshold |-> 1, movements |-> <<>>,
               isActive |-> TRUE, createdAt |-> t]
         ELSE IF second THEN [Deactivated EXCEPT !.isActive = TRUE] ELSE Deactivated] :
     q \in {0, 1}, t \in {0, -(OldStockTicks + 1)}, second \in BOOLEAN}

\* The browser inventory the scans look at.
ClientAlertSeeds ==
    {[id \in ClientIds |-> [present |-> TRUE, quantity |-> q, criticalLowThreshold |-> 1,
                            movements |-> <<>>, addedDate |-> t]] :
     q \in {0, 1}, t \in {0, -(OldStockTicks + 1)}}

\* A notification the browser has kept for 30 days (it carries no priority).
StaleClientNotification ==
    [type |-> "info", title |-> "Old Stock Notice", component |-> 1, priority |-> "none",
     date |-> -CleanupTicks, read |-> TRUE]

InitNotif ==
    /\ \/ /\ components \in AlertSeeds
          /\ clientComponents = ClientEmpty
          /\ clientNotifications = <<>>
       \/ /\ components = [c \in CompIds |-> Deactivated]
          /\ clientComponents \in ClientAlertSeeds
          /\ clientNotifications \in {<<>>, <<StaleClientNotification>>}
    /\ initialQuantity = [c \in CompIds |-> components[c].quantity]
    /\ notifications = <<>>
    /\ now = 0
    /\ response = Resp("none", "none")
    /\ reqs = <<>>
    /\ probe = NoProbe

\* The alert scans, the notification list and the clock.
NextNotif ==
    \/ Tick
    \/ \E u \in UserIds : CheckAlerts(u)
    \/ \E u \in UserIds, q \in Queries :
           q.unreadOnly = "false" /\ q.priority = "any" /\ GetNotifications(u, q)
    \/ \E id \in NotifIds \cup {NoNotif}, u \in UserIds : DeleteNotification(id, u)
    \/ checkStockAlerts
    \/ \E i \in 1..Len(clientNotifications) : clientMarkAsRead(i)
    \/ \E i \in 1..Len(clientNotifications) : clientDeleteNotification(i)
    \/ \E limit \in {0, 1}, unreadOnly \in BOOLEAN : clientGetNotifications(limit, unreadOnly)

SpecNotif == InitNotif /\ [][NextNotif]_vars

\* ------------------------------------------------------------ reading model
\* The Notification collection after a scan has stored the low-stock alert of
\* component 1 and an admin has posted one system notice.
ReadSeeds ==
    {<<createLowStockNotification(1, [Deactivated EXCEPT !.isActive = TRUE]),
       [type |-> "info", category |-> "system", priority |-> body.priority,
        relatedComponent |-> NoComp, metadata |-> [componentId |-> <<>>],
        targetUsers |-> body.targetUsers, targetRoles |-> body.targetRoles,
        readBy |-> <<>>, isActive |-> TRUE, createdAt |-> 0,
        expiresAt |-> body.expiresIn]>> : body \in CreateBodies}

InitRead ==
    /\ now = 0
    /\ components = [c \in CompIds |->
                         IF c = 1 THEN [Deactivated EXCEPT !.isActive = TRUE] ELSE Deactivated]
    /\ clientComponents = ClientEmpty
    /\ clientNotifications = <<>>
    /\ initialQuantity = [c \in CompIds |-> components[c].quantity]
    /\ notifications \in ReadSeeds
    /\ response = Resp("none", "none")
    /\ reqs = <<>>
    /\ probe = NoProbe

\* Notifications are read, deleted, listed and counted while the clock runs.
NextRead ==
    \/ Tick
    \/ \E id \in NotifIds \cup {NoNotif}, u \in UserIds : MarkRead(id, u)
    \/ \E u \in UserIds : MarkAllRead(u)
    \/ \E id \in NotifIds \cup {NoNotif}, u \in UserIds : DeleteNotification(id, u)
    \/ \E u \in UserIds, q \in Queries :
           q.page = 1 /\ q.limit = DefaultLimit /\ GetNotifications(u, q)
    \/ \E u \in UserIds : GetUnreadCount(u)

SpecRead == InitRead /\ [][NextRead]_vars

\* ------------------------------------------- concurrent reading requests
\* PUT /:id/read and PUT /mark-all-read up to their save: the find, and
\* markAsRead on every loaded document that has no entry of the user
MarkFind(r) ==
    LET req == reqs[r]
        found == IF req.route = "markAllRead"
                 THEN {i \in NotifIds : UnreadFilter(notifications[i], req.user)}
                 ELSE {i \in NotifIds : /\ i = req.id
                                        /\ notifications[i].isActive
                                        /\ Targeted(notifications[i], req.user)}
        marked == {i \in found : markAsRead(notifications[i], req.user) # notifications[i]}
    IN  /\ req.pc = "start"
        /\ ConcFrame
        /\ UNCHANGED <<components, notifications>>
        /\ IF req.route = "markRead" /\ found = {}
           THEN reqs' = Finish(r, "not_found")
           ELSE IF marked = {}
           THEN reqs' = Finish(r, "ok")
           ELSE reqs' = [reqs EXCEPT ![r].pc = "saving", ![r].loaded = marked]

\* await notification.save() on the loaded documents: Mongoose sends the
\* entry markAsRead pushed, { $push: { readBy } }, with no version condition
MarkSave(r) ==
    LET req == reqs[r]
    IN  /\ req.pc = "saving"
        /\ ConcFrame
        /\ UNCHANGED components
        /\ notifications' =
               [i \in NotifIds |->
                   IF i \in req.loaded
                   THEN [notifications[i] EXCEPT
                            !.readBy = Append(@, [user |-> req.user, readAt |-> now])]
                   ELSE notifications[i]]
        /\ reqs' = Finish(r, "ok")

\* two reading requests have arrived, of one user or of two
InitMark ==
    /\ now = 0
    /\ components = [c \in CompIds |->
                         IF c = 1 THEN [Deactivated EXCEPT !.isActive = TRUE] ELSE Deactivated]
    /\ clientComponents = ClientEmpty
    /\ clientNotifications = <<>>
    /\ initialQuantity = [c \in CompIds |-> components[c].quantity]
    /\ notifications \in ReadSeeds
    /\ response = Resp("none", "none")
    /\ probe = NoProbe
    /\ reqs \in [ReqIds -> [pc : {"start"}, status : {"pending"},
                            route : {"markRead", "markAllRead"}, user : {1, 2},
                            id : {1, 2}, loaded : {{}}]]
    /\ \A r \in ReqIds : reqs[r].route = "markAllRead" => reqs[r].id = 1

SpecMark == InitMark /\ [][\E r \in ReqIds : MarkFind(r) \/ MarkSave(r)]_vars

\* ------------------------------------------------------ stock status model
\* GET /api/components: the stockStatus computed for each listed component
componentsWithStatus(component) ==
    IF component.quantity <= 0 THEN "out_of_stock"
    ELSE IF component.quantity <= component.criticalLowThreshold THEN "low_stock"
    ELSE "in_stock"

StatusFrame == UNCHANGED <<components, notifications, now, response, initialQuantity,
                           clientComponents, clientNotifications, reqs>>

\* the component document is serialised with its virtuals
ReadVirtual ==
    /\ probe.kind = "status"
    /\ probe' = [probe EXCEPT !.virtual = stockStatus(probe.quantity,
                                                      probe.criticalLowThreshold)]
    /\ StatusFrame

\* the component is listed by GET /api/components
ListStatus ==
    /\ probe.kind = "status"
    /\ probe' = [probe EXCEPT !.route = componentsWithStatus(probe)]
    /\ StatusFrame

\* the browser renders the component's status badge
RenderStatus ==
    /\ probe.kind = "status"
    /\ probe' = [probe EXCEPT !.browser = getStockStatus(probe)]
    /\ StatusFrame

\* One component with any quantity and threshold, seen by nobody yet.
InitStatus ==
    /\ probe \in [kind : {"status"}, quantity : 0..MaxProbe,
                  criticalLowThreshold : 0..MaxProbe,
                  virtual : {"none"}, route : {"none"}, browser : {"none"}]
    /\ components = [c \in CompIds |-> Deactivated]
    /\ initialQuantity = [c \in CompIds |-> components[c].quantity]
    /\ clientComponents = ClientEmpty
    /\ clientNotifications = <<>>
    /\ notifications = <<>>
    /\ now = 0
    /\ response = Resp("none", "none")
    /\ reqs = <<>>

NextStatus ==
    \/ ReadVirtual
    \/ ListStatus
    \/ RenderStatus

SpecStatus == InitStatus /\ [][NextStatus]_vars

\* ------------------------------------------------------ authorization model
\* the 403 of authorize: the handler does not run
Forbidden(op) ==
    /\ response' = Resp(op, "forbidden")
    /\ UNCHANGED <<components, notifications, now, initialQuantity, clientComponents,
                   clientNotifications, reqs, probe>>

\* router.post('/inward', authenticate, authorize('inward'), ...)
PostInward(u, c, quantity) ==
    IF authorize(u, {"inward"}) THEN Inward(c, quantity) ELSE Forbidden("inward")

\* router.post('/outward', authenticate, authorize('outward'), ...)
PostOutward(u, c, quantity) ==
    IF authorize(u, {"outward"}) THEN Outward(c, quantity) ELSE Forbidden("outward")

\* router.get('/', authenticate, authorize('view'), ...): the active components
\* with their stock status
GetComponents(u) ==
    IF authorize(u, {"view"})
    THEN /\ response' = [op |-> "listComponents", status |-> "ok",
                         data |-> {[id |-> c, stockStatus |-> componentsWithStatus(components[c])] :
                                   c \in {d \in CompIds : components[d].isActive}}]
         /\ UNCHANGED <<components, notifications, now, initialQuantity, clientComponents,
                        clientNotifications, reqs, probe>>
    ELSE Forbidden("listComponents")

\* Movements and listings by callers of every role.
NextAuth ==
    \/ \E u \in AccountIds, c \in CompIds, q \in 1..MaxReq : PostInward(u, c, q)
    \/ \E u \in AccountIds, c \in CompIds, q \in 1..MaxReq : PostOutward(u, c, q)
    \/ \E u \in AccountIds : GetComponents(u)

SpecAuth == Init /\ [][NextAuth]_vars

\* -------------------------------------------------------- permission model
\* js/auth.js AuthManager.getRolePermissions
getRolePermissions(role) ==
    CASE role = "admin" -> {"all"}
      [] role = "user" -> {"view", "inward", "outward", "edit"}
      [] role = "researcher" -> {"view", "search"}
      [] role = "engineer" -> {"view", "outward", "reports"}
      [] OTHER -> {"view"}

\* the server answers hasPermission for the user document
AskServer ==
    /\ probe.kind = "can"
    /\ probe.server = "none"
    /\ probe' = [probe EXCEPT !.server =
                    IF hasPermission(probe.role, probe.permissions, probe.permission)
                    THEN "granted" ELSE "denied"]
    /\ UNCHANGED <<components, notifications, now, response, initialQuantity,
                   clientComponents, clientNotifications, reqs>>

\* the browser derives the permissions of the role
AskBrowser ==
    /\ probe.kind = "can"
    /\ probe.table = {}
    /\ probe' = [probe EXCEPT !.table = getRolePermissions(probe.role)]
    /\ UNCHANGED <<components, notifications, now, response, initialQuantity,
                   clientComponents, clientNotifications, reqs>>

\* A user document with any role (one of them outside the table), an explicit
\* permissions list that may be empty, and the permission asked for.
InitPerm ==
    /\ probe \in [kind : {"can"}, role : Roles \cup {"guest"},
                  permissions : SUBSET {"all", "view", "outward"},
                  permission : Capabilities, server : {"none"}, table : {{}}]
    /\ components = [c \in CompIds |-> Deactivated]
    /\ initialQuantity = [c \in CompIds |-> components[c].quantity]
    /\ clientComponents = ClientEmpty
    /\ clientNotifications = <<>>
    /\ notifications = <<>>
    /\ now = 0
    /\ response = Resp("none", "none")
    /\ reqs = <<>>

NextPerm == AskServer \/ AskBrowser

SpecPerm == InitPerm /\ [][NextPerm]_vars

\* ------------------------------------------------------------- bulk model
\* An administrator's batch (req.body.updates) is prepared once and posted to
\* /api/movements/bulk-update, possibly several times.
InitBulk ==
    /\ probe \in [kind : {"bulk"}, updates : BulkUpdates]
    /\ components \in ServerSeeds
    /\ initialQuantity = [c \in CompIds |-> components[c].quantity]
    /\ clientComponents = ClientEmpty
    /\ clientNotifications = <<>>
    /\ notifications = <<>>
    /\ now = 0
    /\ response = Resp("none", "none")
    /\ reqs = <<>>

SubmitBulk == probe.kind = "bulk" /\ BulkUpdate(probe.updates)

SpecBulk == InitBulk /\ [][SubmitBulk]_vars

\* ---------------------------------------------------------- catalogue model
\* Part numbers of the inventory.  Here the server's components collection is a
\* sequence of documents (the index is the _id) and the browser's
\* this.components a sequence of rows; a behaviour follows one of the two
\* stores, named by probe.store.
MaxDocs == 2            \* documents the collection, or the browser list, may hold
PartNumbers == {"R-100", "C-200"}
ComponentBodies == [partNumber : PartNumbers \cup {""}, quantity : {0, 1}]
CsvRows == UNION {[1..n -> PartNumbers \cup {""}] : n \in 1..2}

\* the look-up that also counts deactivated documents
existingComponent_anyState(comps, partNumber, id) ==
    \E i \in 1..Len(comps) : comps[i].partNumber = partNumber /\ i # id

\* Component.findOne({ partNumber, isActive: true, _id: { $ne: id } })
existingComponent(comps, partNumber, id) ==
    \E i \in 1..Len(comps) :
        comps[i].partNumber = partNumber /\ comps[i].isActive /\ i # id

\* POST /api/components; notificationSaved tells whether the store accepts the
\* 'New Component Added' notification
CreateComponent(u, body, notificationSaved) ==
    /\ ServerFrame
    /\ UNCHANGED initialQuantity
    /\ probe.store = "server"
    /\ IF ~authorize(u, {"edit"})
       THEN /\ response' = Resp("create", "forbidden")
            /\ UNCHANGED <<components, notifications>>
       ELSE IF body.partNumber = ""
       THEN /\ response' = Resp("create", "validation")
            /\ UNCHANGED <<components, notifications>>
       ELSE IF existingComponent(components, body.partNumber, NoComp)
       THEN /\ response' = Resp("create", "exists")
            /\ UNCHANGED <<components, notifications>>
       ELSE /\ Len(components) < MaxDocs
            /\ components' = Append(components, [partNumber |-> body.partNumber,
                                                 quantity |-> body.quantity,
                                                 isActive |-> TRUE])
            /\ IF body.quantity > 0
               THEN IF notificationSaved
                    THEN /\ notifications' =
                                Append(notifications,
                                       NewNotification("success", "system", "low",
                                                       Len(components) + 1, {}, {"admin"},
                                                       now + DefaultExpiryTicks))
                         /\ response' = Resp("create", "created")
                    ELSE /\ UNCHANGED notifications
                         /\ response' = Resp("create", "error")
               ELSE /\ UNCHANGED notifications
                    /\ response' = Resp("create", "created")

\* PUT /api/components/:id with a partNumber in the body
UpdatePartNumber(u, id, partNumber) ==
    /\ ServerFrame
    /\ UNCHANGED <<initialQuantity, notifications>>
    /\ probe.store = "server"
    /\ IF ~authorize(u, {"edit"})
       THEN /\ response' = Resp("update", "forbidden")
            /\ UNCHANGED components
       ELSE IF partNumber = ""
       THEN /\ response' = Resp("update", "validation")
            /\ UNCHANGED components
       ELSE IF ~(id \in 1..Len(components) /\ components[id].isActive)
       THEN /\ response' = Resp("update", "not_found")
            /\ UNCHANGED components
       ELSE IF /\ partNumber # components[id].partNumber
               /\ existingComponent(components, partNumber, id)
       THEN /\ response' = Resp("update", "exists")
            /\ UNCHANGED components
       ELSE /\ components' = [components EXCEPT ![id].partNumber = partNumber]
            /\ response' = Resp("update", "ok")

\* DELETE /api/components/:id
DeactivateComponent(u, id) ==
    /\ ServerFrame
    /\ UNCHANGED <<initialQuantity, notifications>>
    /\ probe.store = "server"
    /\ IF ~authorize(u, {"all"})
       THEN /\ response' = Resp("delete", "forbidden")
            /\ UNCHANGED components
       ELSE IF ~(id \in 1..Len(components) /\ components[id].isActive)
       THEN /\ response' = Resp("delete", "not_found")
            /\ UNCHANGED components
       ELSE /\ components' = [components EXCEPT ![id].isActive = FALSE]
            /\ response' = Resp("delete", "ok")

\* ComponentsManager.handleImport (browser): the rows with a part number are
\* pushed in file order, the others counted as errors
handleImport(rows) ==
    LET HasPartNumber(row) == row # ""
        accepted == SelectSeq(rows, HasPartNumber)
        pushed == [i \in 1..Len(accepted) |-> [partNumber |-> accepted[i], quantity |-> 0]]
    IN  /\ ClientFrame
        /\ probe.store = "browser"
        /\ Len(clientComponents) + Len(pushed) <= MaxDocs
        /\ clientComponents' = clientComponents \o pushed
        /\ response' = Resp("import", IF Len(pushed) < Len(rows) THEN "warning" ELSE "ok")

InitCatalog ==
    /\ probe \in [kind : {"catalog"}, store : {"server", "browser"}]
    /\ components = <<>>
    /\ clientComponents = <<>>
    /\ initialQuantity = [c \in CompIds |-> 0]
    /\ clientNotifications = <<>>
    /\ notifications = <<>>
    /\ now = 0
    /\ response = Resp("none", "none")
    /\ reqs = <<>>

NextCatalog ==
    \/ \E u \in {1, 3}, body \in ComponentBodies, notificationSaved \in BOOLEAN :
           CreateComponent(u, body, notificationSaved)
    \/ \E u \in {1, 3}, id \in 1..MaxDocs, partNumber \in PartNumbers \cup {""} :
           UpdatePartNumber(u, id, partNumber)
    \/ \E u \in {1, 2}, id \in 1..MaxDocs : DeactivateComponent(u, id)
    \/ \E rows \in CsvRows : handleImport(rows)

SpecCatalog == InitCatalog /\ [][NextCatalog]_vars

\* ----------------------------------------------------------- old stock model
\* One component, given by its creation time and its movement history, is asked
\* for its old-stock flag at time MaxAge: by the document's method on the server
\* and by the browser's inventory table.
MaxAge == 6             \* ticks between the earliest creation and the question
MaxDays == 2       \* largest thresholdDays asked

\* componentSchema.methods.isOldStock, with the ageInDays virtual
componentIsOldStock(comp, thresholdDays) ==
    LET ageInDays == (Abs(now - comp.createdAt) + DayTicks - 1) \div DayTicks
        outwardMovements == {i \in 1..Len(comp.movements) : comp.movements[i].type = "outward"}
        lastOutward == CHOOSE t \in {comp.movements[i].createdAt : i \in outwardMovements} :
                           \A i \in outwardMovements : comp.movements[i].createdAt <= t
        daysSinceLastOutward == ((now - lastOutward) + DayTicks - 1) \div DayTicks
    IN  IF Len(comp.movements) = 0 THEN ageInDays > thresholdDays
        ELSE IF outwardMovements = {} THEN ageInDays > thresholdDays
        ELSE daysSinceLastOutward > thresholdDays

OldFrame == UNCHANGED <<components, notifications, now, response, initialQuantity,
                        clientComponents, clientNotifications, reqs>>

\* component.isOldStock(thresholdDays) on the server
AskIsOldStock ==
    /\ OldFrame
    /\ probe.kind = "old"
    /\ probe.method = "none"
    /\ probe' = [probe EXCEPT !.method =
                     IF componentIsOldStock(probe.component, probe.thresholdDays)
                     THEN "true" ELSE "false"]

\* the 'Old Stock' badge and filter of the browser's inventory table:
\* Utils.isOldStock(component.addedDate)
RenderOldStock ==
    /\ OldFrame
    /\ probe.kind = "old"
    /\ probe.browser = "none"
    /\ probe' = [probe EXCEPT !.browser =
                     IF isOldStock(probe.component.createdAt, probe.thresholdDays)
                     THEN "true" ELSE "false"]

\* the histories: nothing, one inward, one outward, or an outward and a later
\* inward movement, none before the creation
OldHistories(createdAt) ==
    {<<>>}
    \cup {<<[type |-> "inward", createdAt |-> t]>> : t \in createdAt..MaxAge}
    \cup {<<[type |-> "outward", createdAt |-> t]>> : t \in createdAt..MaxAge}
    \cup {<<[type |-> "outward", createdAt |-> t], [type |-> "inward", createdAt |-> MaxAge]>> :
            t \in createdAt..MaxAge}

InitOld ==
    /\ now = MaxAge
    /\ probe \in {[kind |-> "old", component |-> [createdAt |-> c, movements |-> h],
                   thresholdDays |-> d, method |-> "none", browser |-> "none"] :
                  c \in 0..MaxAge, h \in UNION {OldHistories(t) : t \in 0..MaxAge},
                  d \in 0..MaxDays}
    /\ \A i \in 1..Len(probe.component.movements) :
           probe.component.movements[i].createdAt >= probe.component.createdAt
    /\ components = [c \in CompIds |-> Deactivated]
    /\ initialQuantity = [c \in CompIds |-> components[c].quantity]
    /\ clientComponents = ClientEmpty
    /\ clientNotifications = <<>>
    /\ notifications = <<>>
    /\ response = Resp("none", "none")
    /\ reqs = <<>>

SpecOld == InitOld /\ [][AskIsOldStock \/ RenderOldStock]_vars

\* ----------------------------------------------------------------- CSV model
\* A text is a sequence of characters; a header name counts as one character.
\* The browser exports its filtered components and imports the file again.
MaxLen == 2             \* characters of a text field
MaxRows == 1            \* components of the exported set

FieldChars == {"a", ",", "\"", " "}
Digits == <<"0", "1", "2", "3", "4", "5", "6", "7", "8", "9">>
Headers == <<"Component Name", "Part Number", "Manufacturer", "Quantity", "Unit Price",
             "Critical Low Threshold">>

\* String(number) for a natural number
RECURSIVE NumberToText(_)
NumberToText(n) ==
    IF n < 10 THEN <<Digits[n + 1]>>
    ELSE NumberToText(n \div 10) \o <<Digits[(n % 10) + 1]>>

\* value.replace(/"/g, '""')
RECURSIVE DoubleQuotes(_)
DoubleQuotes(value) ==
    IF value = <<>> THEN <<>>
    ELSE (IF Head(value) = "\"" THEN <<"\"", "\"">> ELSE <<Head(value)>>)
         \o DoubleQuotes(Tail(value))

\* Array.prototype.join
RECURSIVE Join(_, _)
Join(parts, sep) ==
    IF parts = <<>> THEN <<>>
    ELSE IF Len(parts) = 1 THEN parts[1]
    ELSE parts[1] \o <<sep>> \o Join(Tail(parts), sep)

\* String.prototype.split(sep): the pieces between the separators
RECURSIVE Split(_, _)
Split(text, sep) ==
    IF \A i \in 1..Len(text) : text[i] # sep THEN <<text>>
    ELSE LET k == CHOOSE i \in 1..Len(text) :
                      text[i] = sep /\ \A j \in 1..(i - 1) : text[j] # sep
         IN  <<SubSeq(text, 1, k - 1)>> \o Split(SubSeq(text, k + 1, Len(text)), sep)

\* String.prototype.trim
RECURSIVE Trim(_)
Trim(text) ==
    IF text = <<>> THEN <<>>
    ELSE IF Head(text) = " " THEN Trim(Tail(text))
    ELSE IF text[Len(text)] = " " THEN Trim(SubSeq(text, 1, Len(text) - 1))
    ELSE text

\* parseInt(text) || 0 and parseFloat(text) || 0 on the texts of the model: the
\* number of the leading digits, 0 when there is none
RECURSIVE ParseDigits(_, _)
ParseDigits(text, acc) ==
    IF text = <<>> \/ \A d \in 1..10 : Digits[d] # Head(text) THEN acc
    ELSE ParseDigits(Tail(text),
                     10 * acc + ((CHOOSE d \in 1..10 : Digits[d] = Head(text)) - 1))

parseInt(text) == ParseDigits(Trim(text), 0)

\* Utils.exportToCSV: csvContent for the rows of ComponentsManager.exportToCSV
exportToCSV(data) ==
    LET Cell(value) == IF \E i \in 1..Len(value) : value[i] \in {",", "\""}
                       THEN <<"\"">> \o DoubleQuotes(value) \o <<"\"">>
                       ELSE value
        Line(row) == Join([h \in 1..Len(Headers) |-> Cell(row[Headers[h]])], ",")
    IN  Join(<<Join([h \in 1..Len(Headers) |-> <<Headers[h]>>], ",")>>
             \o [r \in 1..Len(data) |-> Line(data[r])], "\n")

\* Utils.importFromCSV: one object per non-blank line after the first
importFromCSV(csv) ==
    LET lines == Split(csv, "\n")
        split == Split(lines[1], ",")
        headers == [h \in 1..Len(split) |-> Trim(split[h])]
        NotBlank(line) == Trim(line) # <<>>
        rows == SelectSeq(Tail(lines), NotBlank)
        Object(line) ==
            LET values == Split(line, ",")
            IN  [name \in {headers[h][1] : h \in 1..Len(headers)} |->
                    LET index == CHOOSE h \in 1..Len(headers) :
                                     /\ headers[h][1] = name
                                     /\ \A g \in (h + 1)..Len(headers) : headers[g][1] # name
                    IN  IF index <= Len(values) THEN Trim(values[index]) ELSE <<>>]
    IN  [r \in 1..Len(rows) |-> Object(rows[r])]

\* the rows of ComponentsManager.exportToCSV, numbers as the texts join() gives
ExportRow(component) ==
    [h \in {Headers[i] : i \in 1..Len(Headers)} |->
        CASE h = "Component Name" -> component.name
          [] h = "Part Number" -> component.partNumber
          [] h = "Manufacturer" -> component.manufacturer
          [] h = "Quantity" -> NumberToText(component.quantity)
          [] h = "Unit Price" -> NumberToText(component.unitPrice)
          [] h = "Critical Low Threshold" -> NumberToText(component.criticalLowThreshold)]

\* the components handleImport builds from the imported rows: a row without
\* name, part number or manufacturer is counted as an error
ImportedComponents(data) ==
    LET Field(row, header) == IF header \in DOMAIN row THEN row[header] ELSE <<>>
        Component(row) ==
            [name |-> Field(row, "Component Name"),
             partNumber |-> Field(row, "Part Number"),
             manufacturer |-> Field(row, "Manufacturer"),
             quantity |-> parseInt(Field(row, "Quantity")),
             unitPrice |-> parseInt(Field(row, "Unit Price")),
             criticalLowThreshold |-> parseInt(Field(row, "Critical Low Threshold"))]
        Valid(row) == /\ Field(row, "Component Name") # <<>>
                      /\ Field(row, "Part Number") # <<>>
                      /\ Field(row, "Manufacturer") # <<>>
        accepted == SelectSeq(data, Valid)
    IN  [i \in 1..Len(accepted) |-> Component(accepted[i])]

CsvFrame == UNCHANGED <<components, notifications, now, response, initialQuantity,
                        clientComponents, clientNotifications, reqs>>

\* ComponentsManager.exportToCSV
ExportCsv ==
    /\ CsvFrame
    /\ probe.kind = "csv"
    /\ probe.stage = "stored"
    /\ probe' = [probe EXCEPT !.stage = "exported",
                              !.csv = exportToCSV([i \in 1..Len(probe.components) |->
                                                      ExportRow(probe.components[i])])]

\* ComponentsManager.handleImport of the exported file
ImportCsv ==
    /\ CsvFrame
    /\ probe.kind = "csv"
    /\ probe.stage = "exported"
    /\ probe' = [probe EXCEPT !.stage = "imported",
                              !.imported = ImportedComponents(importFromCSV(probe.csv))]

Texts == UNION {[1..n -> FieldChars] : n \in 1..MaxLen}

InitCsv ==
    /\ probe \in [kind : {"csv"}, stage : {"stored"}, csv : {<<>>}, imported : {<<>>},
                  components : UNION {[1..n -> [name : Texts, partNumber : {<<"a">>, <<"a", ",">>},
                                                manufacturer : {<<"a">>},
                                                quantity : {0, 12}, unitPrice : {3},
                                                criticalLowThreshold : {1}]] :
                                      n \in 1..MaxRows}]
    /\ components = [c \in CompIds |-> Deactivated]
    /\ initialQuantity = [c \in CompIds |-> components[c].quantity]
    /\ clientComponents = ClientEmpty
    /\ clientNotifications = <<>>
    /\ notifications = <<>>
    /\ now = 0
    /\ response = Resp("none", "none")
    /\ reqs = <<>>

SpecCsv == InitCsv /\ [][ExportCsv \/ ImportCsv]_vars

\* ------------------------------------------------------ old stock scan model
\* The scans meet a component that is, or is about to be, older than 90 days,
\* with or without an outward movement, and sometimes an Old Stock Notice that
\* is six days old.  On the server component 2 is old and deactivated.
InitOldScan ==
    /\ now = 0
    /\ \E createdAt \in {-(OldStockTicks + 1), -(OldStockTicks - 1)},
          history \in {<<>>, <<"outward", -1>>, <<"inward", -1>>,
                       <<"outward", -(OldStockTicks + 1)>>},
          noticed \in BOOLEAN :
           /\ history # <<>> => history[2] >= createdAt
           /\ \/ /\ components =
                        [c \in CompIds |->
                            IF c = 1
                            THEN [quantity |-> 2, criticalLowThreshold |-> 1,
                                  movements |-> IF history = <<>> THEN <<>>
                                                ELSE <<[type |-> history[1], quantity |-> 1,
                                                        createdAt |-> history[2]]>>,
                                  isActive |-> TRUE, createdAt |-> createdAt]
                            ELSE [Deactivated EXCEPT !.createdAt = -(OldStockTicks + 1)]]
                 /\ notifications =
                        IF noticed
                        THEN <<[createOldStockNotification(1) EXCEPT
                                   !.createdAt = 2 - OldStockWindowTicks,
                                   !.expiresAt = 2 - OldStockWindowTicks + DefaultExpiryTicks]>>
                        ELSE <<>>
                 /\ clientComponents = ClientEmpty
                 /\ clientNotifications = <<>>
              \/ /\ components = [c \in CompIds |-> Deactivated]
                 /\ notifications = <<>>
                 /\ clientComponents =
                        [id \in ClientIds |->
                            [present |-> TRUE, quantity |-> 2, criticalLowThreshold |-> 1,
                             movements |-> IF history = <<>> THEN <<>>
                                           ELSE <<[type |-> history[1], quantity |-> 1,
                                                   date |-> history[2]]>>,
                             addedDate |-> createdAt]]
                 /\ clientNotifications =
                        IF noticed
                        THEN <<[type |-> "info", title |-> "Old Stock Notice", component |-> 1,
                                priority |-> "low", date |-> 2 - OldStockWindowTicks,
                                read |-> FALSE]>>
                        ELSE <<>>
    /\ initialQuantity = [c \in CompIds |-> components[c].quantity]
    /\ response = Resp("none", "none")
    /\ reqs = <<>>
    /\ probe = NoProbe

SpecOldScan ==
    InitOldScan /\ [][\/ Tick
                      \/ \E u \in UserIds : CheckAlerts(u)
                      \/ \E id \in NotifIds, u \in UserIds : DeleteNotification(id, u)
                      \/ checkStockAlerts]_vars

\* ------------------------------------------------------------------ claims

C2_QuantityNonNegative ==
    /\ \A c \in CompIds : components[c].quantity >= 0
    /\ \A id \in ClientIds : clientComponents[id].quantity >= 0

\* C3: an outward movement asking for more than the current quantity is
\* answered with the insufficient-stock error and leaves the component
\* (quantity and movement history) and the notifications as they were;
\* this holds for POST /outward, for a bulk-update item and for the
\* browser's stock movement form.
C3_OutwardRejected ==
    [][ /\ \A c \in CompIds, q \in 1..MaxReq :
              (FindActive(components, c) /\ q > components[c].quantity) =>
                  /\ Outward(c, q) =>
                        /\ response'.status = "insufficient"
                        /\ UNCHANGED <<components, notifications>>
                  /\ BulkItem(components, [componentId |-> c, quantity |-> -q])
                        = [comps |-> components, outcome |-> "insufficient"]
        /\ \A id \in ClientIds, q \in 1..MaxReq :
              (ClientFound(id) /\ q > clientComponents[id].quantity
                 /\ handleStockMovementSubmit(id, "outward", q)) =>
                  /\ response'.status = "insufficient"
                  /\ UNCHANGED <<clientComponents, clientNotifications>>
      ]_vars

\* C3 witness: an outward request on a stocked component has just been
\* refused for insufficient stock.
C3_Witness ==
    /\ response = Resp("outward", "insufficient")
    /\ components[1].quantity > 0
    /\ components[1].movements # <<>>


\* C4: of two concurrent outward requests against the same component whose
\* quantities each fit the stock but whose sum exceeds it, at most one
\* succeeds.
C4_AtMostOneSucceeds ==
    \A r1, r2 \in ReqIds :
        ( /\ r1 # r2
          /\ reqs[r1].type = "outward" /\ reqs[r2].type = "outward"
          /\ reqs[r1].componentId = reqs[r2].componentId
          /\ reqs[r1].quantity <= initialQuantity[reqs[r1].componentId]
          /\ reqs[r2].quantity <= initialQuantity[reqs[r1].componentId]
          /\ reqs[r1].quantity + reqs[r2].quantity > initialQuantity[reqs[r1].componentId] )
        => ~(reqs[r1].status = "ok" /\ reqs[r2].status = "ok")

\* C5: an accepted component update leaves the stored quantity and the
\* movement history as they were, whatever the patch carries, on the server
\* (PUT /api/components/:id) and in the browser (the Edit Component form).
C5_UpdateKeepsQuantity ==
    [][ /\ \A c \in CompIds, patch \in Patches :
              (UpdateComponent(c, patch) /\ response'.status = "ok") =>
                  /\ components'[c].quantity = components[c].quantity
                  /\ components'[c].movements = components[c].movements
        /\ \A id \in ClientIds, d \in ClientFormData :
              (ClientFound(id) /\ handleComponentFormSubmit(id, d)) =>
                  /\ clientComponents'[id].quantity = clientComponents[id].quantity
                  /\ clientComponents'[id].movements = clientComponents[id].movements
      ]_vars

(***************************************************************************)
(* C6  A low-stock scan creates a low_stock notification for a component   *)
(* only when the component has no active low_stock notification from the   *)
(* last 24 hours: a second scan within 24 hours of the first alert, with   *)
(* the component still low and the alert still active, adds nothing, and   *)
(* a scan never adds two for one component.  A low component with no such  *)
(* alert gets exactly one.  The same holds for the browser's scan.         *)
(***************************************************************************)
C6_OneLowStockAlertPerDay ==
    [][ /\ \A u \in UserIds :
            response'.op = "checkAlerts" /\ response'.status = "ok" /\ CheckAlerts(u) =>
            \A c \in CompIds :
                LET Alerts(notifs) == {i \in 1..Len(notifs) :
                                          /\ notifs[i].category = "low_stock"
                                          /\ notifs[i].relatedComponent = c}
                    recent == \E i \in Alerts(notifications) :
                                  /\ notifications[i].isActive
                                  /\ now - notifications[i].createdAt <= DayTicks
                    low == /\ components[c].isActive
                           /\ components[c].quantity <= components[c].criticalLowThreshold
                    added == Cardinality(Alerts(notifications')) -
                             Cardinality(Alerts(notifications))
                IN  added = IF low /\ ~recent THEN 1 ELSE 0
        /\ response' = Resp("clientScan", "ok") /\ checkStockAlerts =>
            \A c \in ClientIds :
                LET Alerts(list) == {i \in 1..Len(list) :
                                        /\ list[i].title = "Low Stock Alert"
                                        /\ list[i].component = c
                                        /\ now - list[i].date <= DayTicks}
                    low == /\ clientComponents[c].present
                           /\ clientComponents[c].quantity <=
                                  clientComponents[c].criticalLowThreshold
                    added == Cardinality(Alerts(clientNotifications')) -
                             Cardinality(Alerts(clientNotifications))
                IN  added = IF low /\ Alerts(clientNotifications) = {} THEN 1 ELSE 0
      ]_vars

\* a scan has just answered without a low-stock alert although component 1 is
\* low, because its one alert, still active, is from an earlier tick of the day
C6_Witness ==
    /\ response.op = "checkAlerts"
    /\ response.status = "ok"
    /\ response.lowStockAlerts = <<>>
    /\ components[1].isActive
    /\ components[1].quantity <= components[1].criticalLowThreshold
    /\ \E i \in NotifIds :
           /\ notifications[i].category = "low_stock"
           /\ notifications[i].relatedComponent = 1
           /\ notifications[i].isActive
           /\ notifications[i].createdAt < now
           /\ now - notifications[i].createdAt <= DayTicks
    /\ Cardinality({i \in NotifIds : /\ notifications[i].category = "low_stock"
                                     /\ notifications[i].relatedComponent = 1}) = 1

(***************************************************************************)
(* C8  For a quantity and a threshold that are integers >= 0 the stock     *)
(* status is out_of_stock iff quantity <= 0, low_stock iff                 *)
(* 0 < quantity <= threshold, and in_stock otherwise; the model virtual,   *)
(* the component-list route and the browser's getStockStatus give the same *)
(* status (the browser by its label).                                      *)
(***************************************************************************)
C8_StockStatusAgrees ==
    probe.kind = "status" =>
        LET q == probe.quantity
            t == probe.criticalLowThreshold
            expected == CASE q <= 0 -> "out_of_stock"
                          [] 0 < q /\ q <= t -> "low_stock"
                          [] q > 0 /\ q > t -> "in_stock"
            Label(status) == CASE status = "out_of_stock" -> "Out of Stock"
                               [] status = "low_stock" -> "Low Stock"
                               [] status = "in_stock" -> "In Stock"
        IN  /\ probe.virtual \in {"none", expected}
            /\ probe.route \in {"none", expected}
            /\ probe.browser \in {"none", Label(expected)}

\* all three have answered for a quantity that is exactly at a positive threshold
C8_Witness ==
    /\ probe.kind = "status"
    /\ probe.quantity = probe.criticalLowThreshold
    /\ probe.quantity > 0
    /\ probe.virtual = "low_stock"
    /\ probe.route = "low_stock"
    /\ probe.browser = "Low Stock"

(***************************************************************************)
(* C9  The notification list just returned is ordered by priority, high    *)
(* before medium before low, and within one priority newest first: on the  *)
(* server (GET /api/notifications) and in the browser (getNotifications).  *)
(* The answer is of the current tick, so the stored notifications are the  *)
(* ones it was computed from.                                              *)
(***************************************************************************)
C9_ListByPriority ==
    LET Rank(p) == CASE p = "high" -> 3 [] p = "medium" -> 2 [] p = "low" -> 1
                     [] OTHER -> 0
    IN  /\ response.op = "list" =>
               \A i, j \in 1..Len(response.data) : i < j =>
                   LET a == notifications[response.data[i]]
                       b == notifications[response.data[j]]
                   IN  \/ Rank(a.priority) > Rank(b.priority)
                       \/ a.priority = b.priority /\ a.createdAt >= b.createdAt
        /\ response.op = "clientList" =>
               \A i, j \in 1..Len(response.data) : i < j =>
                   LET a == clientNotifications[response.data[i]]
                       b == clientNotifications[response.data[j]]
                   IN  \/ Rank(a.priority) > Rank(b.priority)
                       \/ a.priority = b.priority /\ a.date >= b.date

(***************************************************************************)
(* C7  Marking a notification read is idempotent per user: after an        *)
(* accepted PUT /:id/read the notification's readBy holds exactly one      *)
(* entry for that user, whatever the number of earlier calls, the entries  *)
(* of other users and every other notification are as before, and a call   *)
(* by a user who has an entry changes nothing.  The model method           *)
(* markAsRead by itself has the same property.                             *)
(***************************************************************************)
C7_MarkReadIdempotent ==
    /\ [](\A id \in NotifIds, u \in UserIds :
             LET EntriesOf(n, v) == LET Mine(r) == r.user = v IN SelectSeq(n.readBy, Mine)
                 once == markAsRead(notifications[id], u)
             IN  /\ Len(EntriesOf(once, u)) = 1
                 /\ markAsRead(once, u) = once
                 /\ \A v \in UserIds \ {u} :
                        EntriesOf(once, v) = EntriesOf(notifications[id], v))
    /\ [][ response' = Resp("markRead", "ok") =>
             \A id \in NotifIds, u \in UserIds : MarkRead(id, u) =>
                 LET EntriesOf(n, v) == LET Mine(r) == r.user = v IN SelectSeq(n.readBy, Mine)
                 IN  /\ Len(EntriesOf(notifications'[id], u)) = 1
                     /\ \A v \in UserIds \ {u} :
                            EntriesOf(notifications'[id], v) = EntriesOf(notifications[id], v)
                     /\ EntriesOf(notifications[id], u) # <<>> =>
                            notifications' = notifications
                     /\ \A other \in NotifIds \ {id} :
                            notifications'[other] = notifications[other]
         ]_vars

\* a mark-read call has just been accepted and added nothing: every entry is
\* from an earlier tick, and one notification holds an entry of each user
C7_Witness ==
    /\ response = Resp("markRead", "ok")
    /\ \A id \in NotifIds : \A i \in 1..Len(notifications[id].readBy) :
           notifications[id].readBy[i].readAt < now
    /\ \E id \in NotifIds :
           /\ Len(notifications[id].readBy) = Cardinality(UserIds)
           /\ \A u \in UserIds : isReadBy(notifications[id], u)

(***************************************************************************)
(* C10  The notification list and the unread count just returned to a user *)
(* hold a notification only if it is active, its expiresAt is later than   *)
(* now, and the user's id is in targetUsers or the user's role is in       *)
(* targetRoles; the unread count is the number of such notifications       *)
(* without a readBy entry of the user.  getNotificationsForUser selects by *)
(* the same rule.                                                          *)
(***************************************************************************)
C10_VisibleOnlyIfTargeted ==
    LET Visible(n, u) == /\ n.isActive
                         /\ n.expiresAt > now
                         /\ (u \in n.targetUsers \/ UserRole(u) \in n.targetRoles)
    IN  /\ response.op = "list" =>
               /\ \A k \in 1..Len(response.data) :
                      /\ response.data[k] \in NotifIds
                      /\ Visible(notifications[response.data[k]], response.user)
               /\ response.total <=
                      Cardinality({i \in NotifIds : Visible(notifications[i], response.user)})
        /\ response.op = "unreadCount" =>
               response.unreadCount =
                   Cardinality({i \in NotifIds :
                                   /\ Visible(notifications[i], response.user)
                                   /\ \A k \in 1..Len(notifications[i].readBy) :
                                          notifications[i].readBy[k].user # response.user})
        /\ \A u \in UserIds : \A i \in getNotificationsForUser(u, UserRole(u)) :
               Visible(notifications[i], u)

\* a list has just been returned that holds a notification and leaves out an
\* active, unread notification targeted at the user because it has expired
C10_Witness ==
    /\ response.op = "list"
    /\ response.data # <<>>
    /\ \E i \in NotifIds :
           /\ \A k \in 1..Len(response.data) : response.data[k] # i
           /\ notifications[i].isActive
           /\ notifications[i].expiresAt <= now
           /\ Targeted(notifications[i], response.user)
           /\ notifications[i].readBy = <<>>
           /\ notifications[i].priority = "high"

(***************************************************************************)
(* C11  A caller whose resolved permissions hold neither all nor the       *)
(* permission the route requires is refused before the handler runs: an    *)
(* outward movement by such a caller (a researcher without explicit        *)
(* permissions among them) is answered with the permission error and       *)
(* leaves the components and the notifications as they were, while a       *)
(* listing by a caller who holds view or all succeeds.                     *)
(***************************************************************************)
C11_RefusedBeforeChange ==
    [][ \A u \in AccountIds :
            LET resolved == getPermissions(u)
            IN  /\ "all" \notin resolved /\ "outward" \notin resolved =>
                    \A c \in CompIds, q \in 1..MaxReq : PostOutward(u, c, q) =>
                        /\ response' = Resp("outward", "forbidden")
                        /\ UNCHANGED <<components, notifications>>
                /\ resolved \cap {"all", "view"} # {} /\ GetComponents(u) =>
                    response'.status = "ok"
      ]_vars

\* an outward request has just been refused although component 1 is active and
\* holds stock, and the researcher has no permission for it
C11_Witness ==
    /\ response = Resp("outward", "forbidden")
    /\ components[1].isActive
    /\ components[1].quantity >= 1
    /\ UserRole(3) = "researcher"
    /\ ~authorize(3, {"outward"})
    /\ authorize(3, {"view"})

C13_BulkItemsIndependent ==
    [][ response' = Resp("bulk", "ok") =>
            LET updates == probe.updates
                r == BulkLoop(updates, 1, components, <<>>, <<>>)
                items == 1..Len(updates)
                successful == {r.successful[k] : k \in 1..Len(r.successful)}
                failed == {r.failed[k].item : k \in 1..Len(r.failed)}
                Without(i) == [k \in 1..(Len(updates) - 1) |->
                                  IF k < i THEN updates[k] ELSE updates[k + 1]]
            IN  /\ successful \cup failed = items
                /\ successful \cap failed = {}
                /\ Len(r.successful) + Len(r.failed) = Len(updates)
                /\ \A i \in items :
                       /\ ~components[updates[i].componentId].isActive => i \in failed
                       /\ updates[i].quantity = 0 => i \in failed
                       /\ /\ updates[i].quantity < 0
                          /\ \A k \in items : updates[k].componentId = updates[i].componentId
                                                  => updates[k].quantity <= 0
                          /\ -updates[i].quantity > components[updates[i].componentId].quantity
                          => i \in failed
                       /\ /\ updates[i].quantity > 0
                          /\ components[updates[i].componentId].isActive
                          => i \in successful
                /\ \A i \in failed :
                       BulkLoop(Without(i), 1, components, <<>>, <<>>).comps = components'
                /\ \A c \in CompIds :
                       (\A i \in items : updates[i].componentId = c => i \in failed)
                           => components'[c] = components[c]
      ]_vars

\* the batch <<0 for component 1, +1 for component 1>> has been answered: the
\* first item failed and the second was applied after it
C13_Witness ==
    /\ response = Resp("bulk", "ok")
    /\ probe.kind = "bulk"
    /\ probe.updates = <<[componentId |-> 1, quantity |-> 0], [componentId |-> 1, quantity |-> 1]>>
    /\ Len(components[1].movements) = 1
    /\ components[1].movements[1].type = "inward"
    /\ components[1].quantity = initialQuantity[1] + 1

(***************************************************************************)
(* C14  No two active components have the same partNumber, in the server's *)
(* collection and in the browser's list alike, whatever sequence of        *)
(* create, update, deactivate and import operations has run.               *)
(***************************************************************************)
C14_UniqueActivePartNumbers ==
    /\ \A i, j \in 1..Len(components) :
           /\ components[i].isActive /\ components[j].isActive
           /\ components[i].partNumber = components[j].partNumber
           => i = j
    /\ \A i, j \in 1..Len(clientComponents) :
           clientComponents[i].partNumber = clientComponents[j].partNumber => i = j

(***************************************************************************)
(* C18  A deactivated component does not count for part-number uniqueness: *)
(* an administrator's create with a part number that no active component   *)
(* carries is never answered 'already exists', and is answered 'created'   *)
(* whenever the store takes the notification, also when deactivated        *)
(* components with that part number are in the collection; the delete of   *)
(* an active component by an administrator succeeds and deactivates it.    *)
(***************************************************************************)
C18_CreateDeleteCreate ==
    [][ /\ \A body \in ComponentBodies, notificationSaved \in BOOLEAN :
               /\ CreateComponent(1, body, notificationSaved)
               /\ body.partNumber # ""
               /\ \A i \in 1..Len(components) :
                      components[i].partNumber = body.partNumber => ~components[i].isActive
               => /\ response'.status \in {"created", "error"}
                  /\ notificationSaved \/ body.quantity = 0 => response'.status = "created"
                  /\ Len(components') = Len(components) + 1
                  /\ components'[Len(components')].isActive
                  /\ components'[Len(components')].partNumber = body.partNumber
        /\ \A id \in 1..Len(components) :
               DeactivateComponent(1, id) /\ components[id].isActive
               => /\ response' = Resp("delete", "ok")
                  /\ ~components'[id].isActive
                  /\ components'[id].partNumber = components[id].partNumber
      ]_vars

\* a part number has been created, deleted and created again: a deactivated
\* document and an active one carry it
C18_Witness ==
    /\ response = Resp("create", "created")
    /\ Len(components) = 2
    /\ components[1].partNumber = components[2].partNumber
    /\ ~components[1].isActive
    /\ components[2].isActive

(***************************************************************************)
(* C15  A delete by a caller who is neither an administrator nor targeted  *)
(* fails and leaves the notification as it was; a delete that succeeds     *)
(* only clears isActive, on the server and in the browser alike: no        *)
(* record leaves the store.                                                *)
(***************************************************************************)
C15_DeleteOnlyDeactivates ==
    [][ /\ response'.op = "deleteNotification" =>
               \A id \in NotifIds \cup {NoNotif}, u \in UserIds : DeleteNotification(id, u) =>
                   IF id \in NotifIds /\ (Targeted(notifications[id], u) \/ UserRole(u) = "admin")
                   THEN notifications' = [notifications EXCEPT ![id].isActive = FALSE]
                   ELSE response'.status = "not_found" /\ notifications' = notifications
        /\ response'.op = "clientDeleteNotification" =>
               Len(clientNotifications') = Len(clientNotifications)
      ]_vars

(***************************************************************************)
(* C16  With ages in whole days, a component is old stock exactly when it  *)
(* has no outward movement within the last thresholdDays days or, having   *)
(* no outward movement at all, when its age since creation exceeds         *)
(* thresholdDays: every answer given, the server method's and the          *)
(* browser table's, is that one.                                           *)
(***************************************************************************)
C16_OldStockByLastOutward ==
    probe.kind = "old" =>
        LET comp == probe.component
            WholeDays(ticks) == (ticks + DayTicks - 1) \div DayTicks
            outward == {comp.movements[i].createdAt :
                            i \in {k \in 1..Len(comp.movements) :
                                      comp.movements[k].type = "outward"}}
            old == IF outward = {}
                   THEN WholeDays(now - comp.createdAt) > probe.thresholdDays
                   ELSE \A t \in outward : WholeDays(now - t) > probe.thresholdDays
            expected == IF old THEN "true" ELSE "false"
        IN  /\ probe.method # "none" => probe.method = expected
            /\ probe.browser # "none" => probe.browser = expected

(***************************************************************************)
(* C17  Importing the CSV file that an export wrote gives, for every       *)
(* component of the exported set and in the same order, the same name,     *)
(* partNumber, quantity, unitPrice and criticalLowThreshold, whatever the  *)
(* text fields contain.                                                    *)
(***************************************************************************)
C17_CsvRoundTrip ==
    probe.kind = "csv" /\ probe.stage = "imported" =>
        /\ Len(probe.imported) = Len(probe.components)
        /\ \A i \in 1..Len(probe.components) :
               /\ probe.imported[i].name = probe.components[i].name
               /\ probe.imported[i].partNumber = probe.components[i].partNumber
               /\ probe.imported[i].quantity = probe.components[i].quantity
               /\ probe.imported[i].unitPrice = probe.components[i].unitPrice
               /\ probe.imported[i].criticalLowThreshold =
                      probe.components[i].criticalLowThreshold

(***************************************************************************)
(* C19  A notification that cannot be stored never makes the operation     *)
(* fail: a create that stored its component answers 'created', also when   *)
(* the store rejects the 'New Component Added' notification.               *)
(***************************************************************************)
C19_NotificationFailureSwallowed ==
    [][ \A u \in {1, 3}, body \in ComponentBodies :
            CreateComponent(u, body, FALSE) /\ Len(components') > Len(components)
                => response' = Resp("create", "created")
      ]_vars

(***************************************************************************)
(* C20  Once all concurrent inward and outward requests against a          *)
(* component have returned, its stored quantity is the initial quantity    *)
(* plus the stored inward movements minus the stored outward movements,    *)
(* whatever the interleaving of the requests.                              *)
(***************************************************************************)
C20_ConcurrentLedger ==
    (\A r \in ReqIds : reqs[r].pc = "done") =>
        \A c \in CompIds :
            components[c].quantity =
                initialQuantity[c] + SumOf(components[c].movements, "inward")
                                   - SumOf(components[c].movements, "outward")

(***************************************************************************)
(* C21  The movement history of a component is append-only: in every step  *)
(* the history stored before the step is a prefix of the history stored    *)
(* after it, on the server while the component is active and in the        *)
(* browser while the component is in the list.                             *)
(***************************************************************************)
C21_HistoryAppendOnly ==
    [][ /\ \A c \in CompIds :
               components[c].isActive =>
                   /\ Len(components'[c].movements) >= Len(components[c].movements)
                   /\ SubSeq(components'[c].movements, 1, Len(components[c].movements))
                          = components[c].movements
        /\ \A id \in ClientIds :
               clientComponents[id].present /\ clientComponents'[id].present =>
                   /\ Len(clientComponents'[id].movements) >= Len(clientComponents[id].movements)
                   /\ SubSeq(clientComponents'[id].movements, 1,
                             Len(clientComponents[id].movements))
                          = clientComponents[id].movements
      ]_vars

(***************************************************************************)
(* C22  The low-stock check of the outward movements is suppressed like    *)
(* the scan's: no component has two low_stock notifications created within *)
(* 24 hours of each other while the earlier one is active.                 *)
(***************************************************************************)
C22_OneLowStockPerWindow ==
    \A i, j \in 1..Len(notifications) :
        /\ i < j
        /\ notifications[i].category = "low_stock"
        /\ notifications[j].category = "low_stock"
        /\ notifications[i].relatedComponent = notifications[j].relatedComponent
        /\ notifications[i].isActive
        => notifications[j].createdAt - notifications[i].createdAt > LowStockWindowTicks

(***************************************************************************)
(* C23  Whenever a step takes an active component from above its           *)
(* criticalLowThreshold to at or below it (an outward movement, alone or   *)
(* as an item of a bulk update), an active low_stock notification for the  *)
(* component is stored when the step is over.                              *)
(***************************************************************************)
C23_CrossingStoresAlert ==
    [][ \A c \in CompIds :
            /\ components[c].isActive
            /\ components[c].quantity > components[c].criticalLowThreshold
            /\ components'[c].quantity <= components'[c].criticalLowThreshold
            /\ Len(components'[c].movements) > Len(components[c].movements)
            => \E i \in 1..Len(notifications') :
                   /\ notifications'[i].category = "low_stock"
                   /\ notifications'[i].relatedComponent = c
                   /\ notifications'[i].isActive
      ]_vars

C26_ScanLeavesComponents ==
    [][ /\ response'.op = "checkAlerts" =>
            /\ components' = components
            /\ clientComponents' = clientComponents
            /\ initialQuantity' = initialQuantity
            /\ clientNotifications' = clientNotifications
            /\ Len(notifications') >= Len(notifications)
            /\ SubSeq(notifications', 1, Len(notifications)) = notifications
        /\ response'.op = "clientScan" =>
            /\ components' = components
            /\ clientComponents' = clientComponents
            /\ initialQuantity' = initialQuantity
            /\ notifications' = notifications
            /\ \A i \in 1..Len(clientNotifications') :
                   \/ clientNotifications'[i].date = now
                   \/ \E k \in 1..Len(clientNotifications) :
                          clientNotifications[k] = clientNotifications'[i]
      ]_vars

\* a scan has just stored a low-stock and an old-stock alert for component 1,
\* which is still the component the store was seeded with
C26_Witness ==
    /\ response.op = "checkAlerts"
    /\ response.status = "ok"
    /\ response.lowStockAlerts = <<1>>
    /\ response.oldStockAlerts = <<1>>
    /\ Len(notifications) >= 2
    /\ components[1].isActive
    /\ components[1].quantity <= components[1].criticalLowThreshold
    /\ components[1].quantity = initialQuantity[1]

(***************************************************************************)
(* C27  When PUT /mark-all-read has answered for a user, every             *)
(* notification visible to that user (active, not expired, targeted at     *)
(* their id or role) has an entry for them in readBy and their unread      *)
(* count is 0; the entries of other users, and the notifications the user  *)
(* does not see, are as they were.                                         *)
(***************************************************************************)
C27_MarkAllReadCompletes ==
    [][ response' = Resp("markAllRead", "ok") =>
          /\ Len(notifications') = Len(notifications)
          /\ \E u \in UserIds :
               /\ \A i \in NotifIds :
                    LET before == notifications[i]
                        after == notifications'[i]
                        visible == /\ before.isActive
                                   /\ before.expiresAt > now
                                   /\ (u \in before.targetUsers
                                       \/ UserRole(u) \in before.targetRoles)
                        Others(readBy) == SelectSeq(readBy, LAMBDA e : e.user # u)
                        Own(readBy) == SelectSeq(readBy, LAMBDA e : e.user = u)
                    IN  /\ [after EXCEPT !.readBy = <<>>] = [before EXCEPT !.readBy = <<>>]
                        /\ Others(after.readBy) = Others(before.readBy)
                        /\ visible => Len(Own(after.readBy)) = 1
                        /\ ~visible => after = before
               /\ Cardinality({i \in NotifIds :
                                  /\ notifications'[i].isActive
                                  /\ notifications'[i].expiresAt > now'
                                  /\ (u \in notifications'[i].targetUsers
                                      \/ UserRole(u) \in notifications'[i].targetRoles)
                                  /\ \A k \in 1..Len(notifications'[i].readBy) :
                                         notifications'[i].readBy[k].user # u}) = 0
      ]_vars

\* mark-all-read has just answered; one notification carries the entries of two
\* users, the second written now, and another one was no longer visible and
\* carries no entry written now
C27_Witness ==
    /\ response = Resp("markAllRead", "ok")
    /\ \E i, j \in NotifIds :
           /\ i # j
           /\ Len(notifications[i].readBy) = 2
           /\ notifications[i].readBy[1].user # notifications[i].readBy[2].user
           /\ notifications[i].readBy[1].readAt < now
           /\ notifications[i].readBy[2].readAt = now
           /\ notifications[i].readBy[2].user \in notifications[j].targetUsers
           /\ ~notifications[j].isActive \/ notifications[j].expiresAt <= now
           /\ notifications[j].readBy = <<>>

(***************************************************************************)
(* C28  A movement request that was answered with a failure (not found,    *)
(* insufficient stock, server error) has left nothing behind: the history  *)
(* holds one movement for each request that was not answered with a        *)
(* failure and has passed its save, and when every request has failed the  *)
(* quantity is the one the component started with.                         *)
(***************************************************************************)
C28_FailureLeavesLedger ==
    LET failed == {r \in ReqIds : reqs[r].pc = "done" /\ reqs[r].status # "ok"}
        stored == {r \in ReqIds : \/ reqs[r].pc \in {"notifying", "alerting"}
                                  \/ reqs[r].pc = "done" /\ reqs[r].status = "ok"}
    IN  /\ Len(components[1].movements) = Cardinality(stored)
        /\ failed = ReqIds => components[1].quantity = initialQuantity[1]

(***************************************************************************)
(* C29  Once a component is inactive its movement history and its quantity *)
(* no longer change, whatever requests were under way when it was          *)
(* deactivated.                                                            *)
(***************************************************************************)
C29_InactiveIsFrozen ==
    [][ \A c \in CompIds :
            ~components[c].isActive =>
                /\ components'[c].movements = components[c].movements
                /\ components'[c].quantity = components[c].quantity
      ]_vars

(***************************************************************************)
(* C30  readBy holds at most one entry for each user, also after mark-read *)
(* and mark-all-read requests of one user have run at the same time.       *)
(***************************************************************************)
C30_OneReadEntryPerUser ==
    \A i \in NotifIds :
        \A j, k \in 1..Len(notifications[i].readBy) :
            notifications[i].readBy[j].user = notifications[i].readBy[k].user => j = k

====
